---- MODULE Spec2Model ----
(***************************************************************************)
(* Model of the flat-buffer BSON codec of bson_flat.hpp / bson_flat.cpp:   *)
(* the writer (root and subdocument writers over one shared buffer) and    *)
(* the reader's const_iterator, as state machines over byte arrays.        *)
(*                                                                         *)
(* Conventions.  Memory is a function from byte indices 0..n-1 to bytes.   *)
(* A writer object is a record of the fields of class writer; the union    *)
(* {buffer, parent} is the field ptr (a buffer handle for a root, the      *)
(* address of the parent writer object for a subdocument, NULL = 0).       *)
(* std::size_t is taken to be 64 bits wide, so the size arithmetic of      *)
(* add_element never wraps; sizes the model uses stay below 2^31.          *)
(***************************************************************************)
EXTENDS Integers, Sequences, FiniteSets, TLC

\* ------------------------------------------------------------------ bounds

\* Deepest subdocument nesting the model opens (root = depth 0).
MaxDepth == 2
\* Most elements appended successfully in one run (all writers together).
MaxElems == 3
\* Largest capacity handed to the fixed-buffer constructor.
MaxCap == 22
\* Bytes of the caller's array that lie behind the capacity handed over.
Guard == 2

\* ------------------------------------------------------- program constants

NULL == 0
INT32_MAX == 2147483647
InitialLength == 128
MinLength == 5

type_fp64 == 1
type_string == 2
type_document == 3
type_array == 4
type_binary == 5
type_undefined == 6
type_boolean == 8
type_null == 10
type_int32 == 16
type_int64 == 18

subtype_generic == 0
subtype_user_defined == 128

\* ------------------------------------------------------------ byte helpers

Byte == 0..255

\* memcpy(dest, &v, 4) of a std::int32_t on a little-endian machine.
LE32(v) == << v % 256, (v \div 256) % 256, (v \div 65536) % 256, (v \div 16777216) % 256 >>

\* memcpy(&v, src, 4) into a std::int32_t on a little-endian machine.
FromLE32(b) ==
  b[1] + 256 * b[2] + 65536 * b[3] + 16777216 * (IF b[4] >= 128 THEN b[4] - 256 ELSE b[4])

Max(a, b) == IF a >= b THEN a ELSE b

\* A std::size_t argument of the caller: the value hi * 2^31 + lo, 0 <= lo < 2^31.
SizeOf(n) == [hi |-> 0, lo |-> n]

\* size > n and size >= n, for 0 <= n <= INT32_MAX.
SizeGt(size, n) == size.hi > 0 \/ size.lo > n

SizeGe(size, n) == size.hi > 0 \/ size.lo >= n

SizeLt(size, n) == size.hi = 0 /\ size.lo < n

\* ---------------------------------------------------------------- writer
\* A writer state st is [mem, w, hi]:
\*   mem[h]  the byte array behind buffer handle h,
\*   w[id]   the writer object at address id,
\*   hi[h]   the highest index of mem[h] ever stored to (-1: none).

\* is_root is the 32-bit word that overlays length (31 bits) and malloc (1 bit).
is_root(o) == (o.length # 0) \/ (o.malloc # 0)

\* F applied to the value of x, with x evaluated once.
With(x, F(_)) == CHOOSE r \in {F(v) : v \in {x}} : TRUE

\* One byte store through a root buffer pointer.
Store(st0, h, i, v) ==
  LET F(st) ==
        [st EXCEPT !.mem[h] = IF i \in DOMAIN st.mem[h] THEN [st.mem[h] EXCEPT ![i] = v]
                              ELSE st.mem[h],
                   !.hi[h] = Max(st.hi[h], i)]
  IN  With(st0, F)

RECURSIVE StoreSeq(_, _, _, _)
\* memcpy(buffer + i, bytes, Len(bytes)).
StoreSeq(st0, h, i, bytes0) ==
  LET F(st) ==
        LET G(bytes) ==
              IF bytes = << >> THEN st
              ELSE IF Len(bytes) <= 8
              THEN StoreSeq(Store(st, h, i, bytes[1]), h, i + 1, Tail(bytes))
              ELSE [st EXCEPT !.mem[h] = [k \in DOMAIN st.mem[h] |->
                                            IF k >= i /\ k < i + Len(bytes) THEN bytes[k - i + 1]
                                            ELSE st.mem[h][k]],
                              !.hi[h] = Max(st.hi[h], i + Len(bytes) - 1)]
        IN  With(bytes0, G)
  IN  With(st0, F)

RECURSIVE get_root_of(_, _)
\* writer::get_root: the root writer's address.
get_root_of(st, id) ==
  IF is_root(st.w[id]) THEN id ELSE get_root_of(st, st.w[id].ptr)

\* A variant of get_depth below: no byte is reserved for the ancestors.
get_depth_none(st, id) == 0

RECURSIVE get_depth(_, _)
\* writer::get_root: the depth stored through depth_store.
get_depth(st, id) ==
  IF is_root(st.w[id]) THEN 0 ELSE 1 + get_depth(st, st.w[id].ptr)

\* The nesting depth of writer id; 0 for a writer that has no parent.
get_depth_or(st, id) ==
  IF is_root(st.w[id]) \/ st.w[id].ptr = NULL THEN 0 ELSE get_depth(st, id)

\* header_offset as update_offset and get_bytes compute it.
header_offset(st, id) ==
  IF is_root(st.w[id]) THEN 0 ELSE st.w[st.w[id].ptr].offset - 5

\* A variant of update_offset below: the terminator is written and the offset
\* moved, the length field of the header is left as it was.
update_offset_stale(st0, id, buffer, new_offset) ==
  LET F(st) == [Store(st, buffer, new_offset, 0) EXCEPT !.w[id].offset = new_offset]
  IN  With(st0, F)

\* writer::update_offset(buffer, new_offset).
update_offset(st0, id, buffer, new_offset) ==
  LET F(st) ==
        LET total_buffer == new_offset + 1 - header_offset(st, id)
            s1 == StoreSeq(st, buffer, header_offset(st, id), LE32(total_buffer))
            s2 == Store(s1, buffer, new_offset, 0)
        IN  [s2 EXCEPT !.w[id].offset = new_offset]
  IN  With(st0, F)

\* Largest block the allocator hands out; realloc of more returns nullptr.
MaxAlloc == 1024

\* A variant of Doubled below: the length is doubled once.
Doubled_once(new_length, required) == new_length * 2

RECURSIVE Doubled(_, _)
\* do { new_length *= 2; } while (new_length < required);
Doubled(new_length, required) ==
  IF new_length * 2 < required THEN Doubled(new_length * 2, required) ELSE new_length * 2

\* A variant of Realloc below: the new block does not get the old bytes.
Realloc_fresh(st0, h, new_length) ==
  LET F(st) == [st EXCEPT !.mem[h] = [i \in 0..(new_length - 1) |-> st.fill]]
  IN  With(st0, F)

\* ::realloc(buffer, new_length): the old bytes, then fresh (uninitialised) ones.
Realloc(st0, h, new_length) ==
  LET F(st) ==
        [st EXCEPT !.mem[h] = [i \in 0..(new_length - 1) |->
                                 IF i \in DOMAIN st.mem[h] THEN st.mem[h][i] ELSE st.fill]]
  IN  With(st0, F)

\* A variant of CStr below: the name is followed by a byte that is not NUL.
CStrNoNul(e_name) == e_name \o <<1>>

\* The bytes of a C string argument: the name and its terminating NUL.
CStr(e_name) == e_name \o <<0>>

\* std::strlen: the bytes before the first NUL.
RECURSIVE strlen(_)
strlen(s) == IF s = << >> \/ Head(s) = 0 THEN 0 ELSE 1 + strlen(Tail(s))

\* A variant of add_element below: the type byte is stored before the space
\* left in a fixed buffer is looked at.
add_element_early_store(st0, id, e_name, type, space, alloc_ok) ==
  LET F(st) ==
        IF st.w[id].locked = 1 THEN [st |-> st, dest |-> NULL]
        ELSE
        LET depth == get_depth(st, id)
            root == get_root_of(st, id)
            name_length == strlen(e_name) + 1
            offset == st.w[id].offset
            required == offset + 1 + name_length + space + 1 + depth
            grow == st.w[root].length < required
            new_length == Doubled(st.w[root].length, required)
            buffer == st.w[root].ptr
        IN
        IF name_length <= 1 THEN [st |-> st, dest |-> NULL]
        ELSE IF grow /\ st.w[root].malloc = 0
        THEN [st |-> Store(st, buffer, offset, type), dest |-> NULL]
        ELSE IF grow /\ ~(alloc_ok /\ new_length <= MaxAlloc) THEN [st |-> st, dest |-> NULL]
        ELSE
        LET s0 == IF grow
                  THEN [Realloc(st, buffer, new_length) EXCEPT !.w[root].length = new_length]
                  ELSE st
            s1 == Store(s0, buffer, offset, type)
            s2 == StoreSeq(s1, buffer, offset + 1, SubSeq(CStr(e_name), 1, name_length))
            s3 == update_offset(s2, id, buffer, offset + name_length + 1 + space)
        IN  [st |-> s3, dest |-> offset + 1 + name_length]
  IN  With(st0, F)

\* A variant of add_element below: the new length is recorded before realloc
\* has answered.
add_element_eager(st0, id, e_name, type, space, alloc_ok) ==
  LET F(st) ==
        IF st.w[id].locked = 1 THEN [st |-> st, dest |-> NULL]
        ELSE
        LET depth == get_depth(st, id)
            root == get_root_of(st, id)
            name_length == strlen(e_name) + 1
            offset == st.w[id].offset
            required == offset + 1 + name_length + space + 1 + depth
            grow == st.w[root].length < required
            new_length == Doubled(st.w[root].length, required)
        IN
        IF name_length <= 1 THEN [st |-> st, dest |-> NULL]
        ELSE IF grow /\ st.w[root].malloc = 0 THEN [st |-> st, dest |-> NULL]
        ELSE IF grow /\ ~(alloc_ok /\ new_length <= MaxAlloc)
        THEN [st |-> [st EXCEPT !.w[root].length = new_length], dest |-> NULL]
        ELSE
        LET s0 == IF grow
                  THEN [Realloc(st, st.w[root].ptr, new_length)
                          EXCEPT !.w[root].length = new_length]
                  ELSE st
            buffer == st.w[root].ptr
            s1 == Store(s0, buffer, offset, type)
            s2 == StoreSeq(s1, buffer, offset + 1, SubSeq(CStr(e_name), 1, name_length))
            s3 == update_offset(s2, id, buffer, offset + name_length + 1 + space)
        IN  [st |-> s3, dest |-> offset + 1 + name_length]
  IN  With(st0, F)

\* A variant of add_element below: an element that would fill the buffer to
\* its last byte counts as not fitting.
add_element_strict(st0, id, e_name, type, space, alloc_ok) ==
  LET F(st) ==
        IF st.w[id].locked = 1 THEN [st |-> st, dest |-> NULL]
        ELSE
        LET depth == get_depth(st, id)
            root == get_root_of(st, id)
            name_length == strlen(e_name) + 1
            offset == st.w[id].offset
            required == offset + 1 + name_length + space + 1 + depth
            grow == st.w[root].length <= required
            new_length == Doubled(st.w[root].length, required)
        IN
        IF name_length <= 1 THEN [st |-> st, dest |-> NULL]
        ELSE IF grow /\ st.w[root].malloc = 0 THEN [st |-> st, dest |-> NULL]
        ELSE IF grow /\ ~(alloc_ok /\ new_length <= MaxAlloc) THEN [st |-> st, dest |-> NULL]
        ELSE
        LET s0 == IF grow
                  THEN [Realloc(st, st.w[root].ptr, new_length)
                          EXCEPT !.w[root].length = new_length]
                  ELSE st
            buffer == st.w[root].ptr
            s1 == Store(s0, buffer, offset, type)
            s2 == StoreSeq(s1, buffer, offset + 1, SubSeq(CStr(e_name), 1, name_length))
            s3 == update_offset(s2, id, buffer, offset + name_length + 1 + space)
        IN  [st |-> s3, dest |-> offset + 1 + name_length]
  IN  With(st0, F)

\* writer::add_element(e_name, type, space): [st, dest], dest the index in the
\* root buffer where the payload starts, NULL when the call fails.
\* alloc_ok: whether ::realloc, if called, finds memory.
add_element(st0, id, e_name, type, space, alloc_ok) ==
  LET F(st) ==
        IF st.w[id].locked = 1 THEN [st |-> st, dest |-> NULL]
        ELSE
        LET depth == get_depth(st, id)
            root == get_root_of(st, id)
            name_length == strlen(e_name) + 1
            offset == st.w[id].offset
            required == offset + 1 + name_length + space + 1 + depth
            grow == st.w[root].length < required
            new_length == Doubled(st.w[root].length, required)
        IN
        IF name_length <= 1 THEN [st |-> st, dest |-> NULL]
        ELSE IF grow /\ st.w[root].malloc = 0 THEN [st |-> st, dest |-> NULL]
        ELSE IF grow /\ ~(alloc_ok /\ new_length <= MaxAlloc) THEN [st |-> st, dest |-> NULL]
        ELSE
        LET s0 == IF grow
                  THEN [Realloc(st, st.w[root].ptr, new_length)
                          EXCEPT !.w[root].length = new_length]
                  ELSE st
            buffer == st.w[root].ptr
            s1 == Store(s0, buffer, offset, type)
            s2 == StoreSeq(s1, buffer, offset + 1, SubSeq(CStr(e_name), 1, name_length))
            s3 == update_offset(s2, id, buffer, offset + name_length + 1 + space)
        IN  [st |-> s3, dest |-> offset + 1 + name_length]
  IN  With(st0, F)

\* writer::add_double; value is the object representation (8 bytes) of the double.
add_double(st, id, e_name, value, alloc_ok) ==
  LET G(r) ==
        IF r.dest = NULL THEN [st |-> r.st, ok |-> FALSE]
        ELSE [st |-> StoreSeq(r.st, r.st.w[get_root_of(st, id)].ptr, r.dest, value), ok |-> TRUE]
  IN  With(add_element(st, id, e_name, type_fp64, 8, alloc_ok), G)

\* A variant of add_string below: the length field counts the bytes of the
\* string without the NUL that follows them.
add_string_uncounted(st, id, e_name, string, size, alloc_ok) ==
  IF SizeGe(size, INT32_MAX) THEN [st |-> st, ok |-> FALSE]
  ELSE
  LET length == size.lo
      G(r) ==
        LET h == st.w[get_root_of(st, id)].ptr
            s1 == StoreSeq(r.st, h, r.dest, LE32(length))
            s2 == StoreSeq(s1, h, r.dest + 4, SubSeq(string, 1, length))
            s3 == Store(s2, h, r.dest + 4 + length, 0)
        IN  IF r.dest = NULL THEN [st |-> r.st, ok |-> FALSE] ELSE [st |-> s3, ok |-> TRUE]
  IN  With(add_element(st, id, e_name, type_string, length + 5, alloc_ok), G)

\* writer::add_string(e_name, string, length); size is the std::size_t length.
add_string(st, id, e_name, string, size, alloc_ok) ==
  IF SizeGe(size, INT32_MAX) THEN [st |-> st, ok |-> FALSE]
  ELSE
  LET length == size.lo
      G(r) ==
        LET h == st.w[get_root_of(st, id)].ptr
            s1 == StoreSeq(r.st, h, r.dest, LE32(length + 1))
            s2 == StoreSeq(s1, h, r.dest + 4, SubSeq(string, 1, length))
            s3 == Store(s2, h, r.dest + 4 + length, 0)
        IN  IF r.dest = NULL THEN [st |-> r.st, ok |-> FALSE] ELSE [st |-> s3, ok |-> TRUE]
  IN  With(add_element(st, id, e_name, type_string, length + 5, alloc_ok), G)

\* writer::add_string(e_name, string): the NUL-terminated overload.
add_cstring(st, id, e_name, string, alloc_ok) ==
  add_string(st, id, e_name, string, SizeOf(strlen(string)), alloc_ok)

\* writer::add_binary(e_name, length, subtype): [st, dest], dest the index of
\* the first data byte, NULL when the call fails.
add_binary_nocopy(st, id, e_name, size, subtype, alloc_ok) ==
  IF SizeGt(size, INT32_MAX) THEN [st |-> st, dest |-> NULL]
  ELSE
  LET length == size.lo
      G(r) ==
        LET h == st.w[get_root_of(st, id)].ptr
            s1 == StoreSeq(r.st, h, r.dest, LE32(length))
            s2 == Store(s1, h, r.dest + 4, subtype)
        IN  IF r.dest = NULL THEN [st |-> r.st, dest |-> NULL] ELSE [st |-> s2, dest |-> r.dest + 5]
  IN  With(add_element(st, id, e_name, type_binary, length + 5, alloc_ok), G)

\* writer::add_binary(e_name, buffer, length, subtype).
add_binary(st, id, e_name, buffer, size, subtype, alloc_ok) ==
  LET G(r) ==
        IF r.dest = NULL THEN [st |-> r.st, ok |-> FALSE]
        ELSE [st |-> StoreSeq(r.st, st.w[get_root_of(st, id)].ptr, r.dest, SubSeq(buffer, 1, size.lo)),
              ok |-> TRUE]
  IN  With(add_binary_nocopy(st, id, e_name, size, subtype, alloc_ok), G)

\* writer::add_boolean.
add_boolean(st, id, e_name, value, alloc_ok) ==
  LET G(r) ==
        IF r.dest = NULL THEN [st |-> r.st, ok |-> FALSE]
        ELSE [st |-> Store(r.st, st.w[get_root_of(st, id)].ptr, r.dest, IF value THEN 1 ELSE 0),
              ok |-> TRUE]
  IN  With(add_element(st, id, e_name, type_boolean, 1, alloc_ok), G)

\* writer::add_int32.
add_int32(st, id, e_name, value, alloc_ok) ==
  LET G(r) ==
        IF r.dest = NULL THEN [st |-> r.st, ok |-> FALSE]
        ELSE [st |-> StoreSeq(r.st, st.w[get_root_of(st, id)].ptr, r.dest, LE32(value)), ok |-> TRUE]
  IN  With(add_element(st, id, e_name, type_int32, 4, alloc_ok), G)

\* writer::add_int64; value is the object representation (8 bytes) of the integer.
add_int64(st, id, e_name, value, alloc_ok) ==
  LET G(r) ==
        IF r.dest = NULL THEN [st |-> r.st, ok |-> FALSE]
        ELSE [st |-> StoreSeq(r.st, st.w[get_root_of(st, id)].ptr, r.dest, value), ok |-> TRUE]
  IN  With(add_element(st, id, e_name, type_int64, 8, alloc_ok), G)

\* writer::add_true and writer::add_false.
add_true(st, id, e_name, alloc_ok) == add_boolean(st, id, e_name, TRUE, alloc_ok)

add_false(st, id, e_name, alloc_ok) == add_boolean(st, id, e_name, FALSE, alloc_ok)

\* writer::add_undefined.
add_undefined(st, id, e_name, alloc_ok) ==
  LET G(r) == [st |-> r.st, ok |-> r.dest # NULL]
  IN  With(add_element(st, id, e_name, type_undefined, 0, alloc_ok), G)

\* writer::add_null.
add_null(st, id, e_name, alloc_ok) ==
  LET G(r) == [st |-> r.st, ok |-> r.dest # NULL]
  IN  With(add_element(st, id, e_name, type_null, 0, alloc_ok), G)

\* The private constructor writer(nullptr): the invalid writer.
invalid_writer == [ptr |-> NULL, offset |-> 0, locked |-> 1, length |-> 0, malloc |-> 0]

\* The private constructor writer(parent, offset).
sub_writer(parent, offset) ==
  [ptr |-> parent, offset |-> offset, locked |-> 0, length |-> 0, malloc |-> 0]

\* writer::valid.
valid(o) == (o.ptr # NULL) \/ is_root(o)

\* A variant of add_subdocument below: the parent is not locked.
add_subdocument_nolock(st, id, e_name, type, alloc_ok) ==
  LET G(r) ==
        LET h == st.w[get_root_of(st, id)].ptr
            s1 == StoreSeq(r.st, h, r.dest, LE32(5))
            s2 == Store(s1, h, r.dest + 4, 0)
        IN  IF r.dest = NULL THEN [st |-> r.st, child |-> invalid_writer]
            ELSE [st |-> s2, child |-> sub_writer(id, r.st.w[id].offset - 1)]
  IN  With(add_element(st, id, e_name, type, 5, alloc_ok), G)

\* A variant of add_subdocument below: the space of the nested document is
\* reserved and its length field and terminator are not written.
add_subdocument_bare(st, id, e_name, type, alloc_ok) ==
  LET G(r) ==
        IF r.dest = NULL THEN [st |-> r.st, child |-> invalid_writer]
        ELSE [st |-> [r.st EXCEPT !.w[id].locked = 1],
              child |-> sub_writer(id, r.st.w[id].offset - 1)]
  IN  With(add_element(st, id, e_name, type, 5, alloc_ok), G)

\* writer::add_subdocument(e_name, type): [st, child], child the writer returned.
add_subdocument(st, id, e_name, type, alloc_ok) ==
  LET G(r) ==
        LET h == st.w[get_root_of(st, id)].ptr
            s1 == StoreSeq(r.st, h, r.dest, LE32(5))
            s2 == Store(s1, h, r.dest + 4, 0)
        IN  IF r.dest = NULL THEN [st |-> r.st, child |-> invalid_writer]
            ELSE [st |-> [s2 EXCEPT !.w[id].locked = 1],
                  child |-> sub_writer(id, r.st.w[id].offset - 1)]
  IN  With(add_element(st, id, e_name, type, 5, alloc_ok), G)

\* A variant of destroy below: a subdocument writer unlocks its parent and
\* leaves the parent's header and terminator as they are.
destroy_no_patch(st0, id) ==
  LET F(st) ==
        IF st.w[id].locked = 1 THEN st
        ELSE IF is_root(st.w[id])
        THEN [st EXCEPT !.freed = IF st.w[id].malloc = 1 THEN @ \cup {st.w[id].ptr} ELSE @,
                        !.w[id] = invalid_writer]
        ELSE [st EXCEPT !.w[st.w[id].ptr].locked = 0, !.w[st.w[id].ptr].offset = st.w[id].offset + 1,
                        !.w[id] = invalid_writer]
  IN  With(st0, F)

\* A variant of destroy below: the parent is patched and stays locked.
destroy_keeps_lock(st0, id) ==
  LET F(st) ==
        IF st.w[id].locked = 1 THEN st
        ELSE
        LET s1 == [st EXCEPT !.w[id].locked = 1]
        IN  IF is_root(st.w[id])
            THEN [s1 EXCEPT !.freed = IF st.w[id].malloc = 1 THEN @ \cup {st.w[id].ptr} ELSE @,
                            !.w[id].length = 0, !.w[id].malloc = 0, !.w[id].ptr = NULL]
            ELSE
            LET parent == st.w[id].ptr
                root == get_root_of(st, id)
                s3 == update_offset(s1, parent, st.w[root].ptr, st.w[id].offset + 1)
            IN  [s3 EXCEPT !.w[id].ptr = NULL]
  IN  With(st0, F)

\* writer::~writer.
destroy(st0, id) ==
  LET F(st) ==
        IF st.w[id].locked = 1 THEN st
        ELSE
        LET s1 == [st EXCEPT !.w[id].locked = 1]
        IN  IF is_root(st.w[id])
            THEN [s1 EXCEPT !.freed = IF st.w[id].malloc = 1 THEN @ \cup {st.w[id].ptr} ELSE @,
                            !.w[id].length = 0, !.w[id].malloc = 0, !.w[id].ptr = NULL]
            ELSE
            LET parent == st.w[id].ptr
                s2 == [s1 EXCEPT !.w[parent].locked = 0]
                root == get_root_of(st, id)
                s3 == update_offset(s2, parent, st.w[root].ptr, st.w[id].offset + 1)
            IN  [s3 EXCEPT !.w[id].ptr = NULL]
  IN  With(st0, F)

\* A variant of get_bytes below: every writer answers with the span of the
\* whole buffer up to its own terminator.
get_bytes_whole(st, id) ==
  IF st.w[id].locked = 1 THEN [ok |-> FALSE, bytes |-> 0, length |-> 0]
  ELSE [ok |-> TRUE, bytes |-> 0, length |-> st.w[id].offset + 1]

\* A variant of get_bytes below: a writer that has a buffer answers even
\* when it is locked.
get_bytes_any(st, id) ==
  IF st.w[id].ptr = NULL THEN [ok |-> FALSE, bytes |-> 0, length |-> 0]
  ELSE [ok |-> TRUE, bytes |-> header_offset(st, id),
        length |-> (st.w[id].offset + 1) - header_offset(st, id)]

\* writer::get_bytes: [ok, bytes, length], bytes an index into the root buffer.
get_bytes(st, id) ==
  IF st.w[id].locked = 1 THEN [ok |-> FALSE, bytes |-> 0, length |-> 0]
  ELSE [ok |-> TRUE, bytes |-> header_offset(st, id),
        length |-> (st.w[id].offset + 1) - header_offset(st, id)]

\* The array get_bytes hands out for writer id: length bytes from bytes on.
BytesOf(st, id) ==
  LET G(g) == [i \in 0..(g.length - 1) |-> st.mem[st.w[get_root_of(st, id)].ptr][g.bytes + i]]
  IN  With(get_bytes(st, id), G)

\* A variant of release below: the buffer is handed out and the writer is left
\* as it was.
release_shared(st, id) ==
  IF st.w[id].locked = 1 \/ ~is_root(st.w[id]) \/ st.w[id].malloc = 0
  THEN [st |-> st, bytes |-> NULL, length |-> 0]
  ELSE [st |-> st, bytes |-> st.w[id].ptr, length |-> st.w[id].offset + 1]

\* writer::release: [st, bytes, length], bytes the buffer handle (NULL: failure).
release(st, id) ==
  IF st.w[id].locked = 1 \/ ~is_root(st.w[id]) \/ st.w[id].malloc = 0
  THEN [st |-> st, bytes |-> NULL, length |-> 0]
  ELSE [st |-> [st EXCEPT !.w[id] = [ptr |-> NULL, offset |-> 0, locked |-> 1,
                                     length |-> 0, malloc |-> 0]],
        bytes |-> st.w[id].ptr, length |-> st.w[id].offset + 1]

\* The buffer handle writer id stores through (NULL for a writer that has no
\* root: an invalid, finalized or released one).
BufferOf(st, id) ==
  IF ~is_root(st.w[id]) /\ st.w[id].ptr = NULL THEN NULL ELSE st.w[get_root_of(st, id)].ptr

\* What the read of a block that ::realloc has moved away can yield: the
\* block was in fact extended in place, the freed block still holds its
\* bytes, or it holds something else.
StaleOutcomes == {"in_place", "intact", "garbage"}

\* A variant of add_subdocument_from below: the bytes of a source that has a
\* buffer are taken even when the source is locked.
add_subdocument_from_locked(st0, id, e_name, type, subdocument, alloc_ok, stale) ==
  LET F(st) ==
        LET g == get_bytes_any(st, subdocument)
            G(r) ==
              LET from == st.w[get_root_of(st, subdocument)].ptr
                  to == st.w[get_root_of(st, id)].ptr
              IN  IF r.dest = NULL THEN [st |-> r.st, ok |-> FALSE]
                  ELSE [st |-> StoreSeq(r.st, to, r.dest,
                                        [i \in 1..g.length |-> r.st.mem[from][g.bytes + i - 1]]),
                        ok |-> TRUE]
        IN  IF ~g.ok THEN [st |-> st, ok |-> FALSE]
            ELSE With(add_element(st, id, e_name, type, g.length, alloc_ok), G)
  IN  With(st0, F)

\* writer::add_subdocument(e_name, type, subdocument): [st, ok].  bytes is a
\* pointer into the source's root buffer, taken before add_element runs; when
\* the source shares the destination's buffer and add_element reallocates it,
\* the memcpy reads through the old pointer and stale says what it finds.
add_subdocument_from(st0, id, e_name, type, subdocument, alloc_ok, stale) ==
  LET F(st) ==
        LET g == get_bytes(st, subdocument)
            G(r) ==
              LET from == st.w[get_root_of(st, subdocument)].ptr
                  root == get_root_of(st, id)
                  to == st.w[root].ptr
                  moved == (from = to) /\ (r.st.w[root].length # st.w[root].length)
                             /\ (stale # "in_place")
                  source == [i \in 1..g.length |->
                               IF moved
                               THEN (IF stale = "intact" THEN st.mem[from][g.bytes + i - 1]
                                     ELSE st.fill)
                               ELSE r.st.mem[from][g.bytes + i - 1]]
              IN  IF r.dest = NULL THEN [st |-> r.st, ok |-> FALSE]
                  ELSE [st |-> StoreSeq(r.st, to, r.dest, source), ok |-> TRUE]
        IN  IF ~g.ok THEN [st |-> st, ok |-> FALSE]
            ELSE With(add_element(st, id, e_name, type, g.length, alloc_ok), G)
  IN  With(st0, F)

\* writer::add_document(e_name, subdocument) and writer::add_array(e_name, subdocument).
add_document_from(st, id, e_name, subdocument, alloc_ok, stale) ==
  add_subdocument_from(st, id, e_name, type_document, subdocument, alloc_ok, stale)

add_array_from(st, id, e_name, subdocument, alloc_ok, stale) ==
  add_subdocument_from(st, id, e_name, type_array, subdocument, alloc_ok, stale)

\* writer::writer(): h is the block ::malloc returns, NULL when it fails.
new_dynamic(st, id, h) ==
  IF h = NULL
  THEN [st EXCEPT !.w[id] = [ptr |-> NULL, offset |-> 0, locked |-> 1, length |-> 0, malloc |-> 0]]
  ELSE update_offset([st EXCEPT !.w[id] = [ptr |-> h, offset |-> 0, locked |-> 0,
                                           length |-> InitialLength, malloc |-> 1]],
                     id, h, 4)

\* A variant of new_fixed below: the length is taken as it comes.
new_fixed_unchecked(st, id, buffer, size) ==
  update_offset([st EXCEPT !.w[id] = [ptr |-> buffer, offset |-> 0, locked |-> 0,
                                      length |-> size.lo, malloc |-> 0]],
                id, buffer, 4)

\* writer::writer(buffer, length); size is the std::size_t length.
new_fixed(st, id, buffer, size) ==
  IF SizeLt(size, MinLength) \/ SizeGt(size, INT32_MAX)
  THEN [st EXCEPT !.w[id] = [ptr |-> NULL, offset |-> 0, locked |-> 1, length |-> 0, malloc |-> 0]]
  ELSE update_offset([st EXCEPT !.w[id] = [ptr |-> buffer, offset |-> 0, locked |-> 0,
                                           length |-> size.lo, malloc |-> 0]],
                     id, buffer, 4)

\* ---------------------------------------------------------------- reader
\* The reader works on addresses: the byte array m it is handed lies at
\* address BASE, so that no address inside it is the null pointer.  env is
\* what the machine decides where the C++ leaves the outcome open:
\*   env.g     the byte a read outside the array yields,
\*   env.wrap  whether the signed 32-bit overflow of length + 1 wraps.

\* The address of byte 0 of the array handed to the reader.
BASE == 16
\* Every address further out than this is represented by PTR_TOP itself.
PTR_TOP == 1073741824

Rd(m, a, env) == IF (a - BASE) \in DOMAIN m THEN m[a - BASE] ELSE env.g

\* The addresses a call reads, kept as the lowest and the highest of them.
NoReads == [lo |-> INT32_MAX, hi |-> -INT32_MAX]

\* The addresses a..b (none when a > b).
Span(a, b) == IF a <= b THEN [lo |-> a, hi |-> b] ELSE NoReads

Join(r, q) == [lo |-> IF r.lo <= q.lo THEN r.lo ELSE q.lo, hi |-> IF r.hi >= q.hi THEN r.hi ELSE q.hi]

\* The four bytes memcpy reads at address a.
Rd4(m, a, env) == << Rd(m, a, env), Rd(m, a + 1, env), Rd(m, a + 2, env), Rd(m, a + 3, env) >>

\* p + n bytes, for n >= 0.
PtrAdd(p, n) == IF p >= 0 /\ n >= PTR_TOP - p THEN PTR_TOP ELSE p + n

\* reader::reader(buffer, length).
reader(buffer, length) == [buffer |-> buffer, length |-> length]

\* The default-constructed const_iterator.
end_iterator == [e_name |-> NULL, data |-> NULL, next_position |-> NULL, end_position |-> NULL]

\* A variant of fail below: every iterator whose end marker is cleared counts
\* as failed.
fail_any(it) == it.end_position = NULL

\* reader::const_iterator::fail.
fail(it) == (it.end_position = NULL) /\ (it.next_position # NULL)

\* The label terminate of operator++.
terminate(it) == [it EXCEPT !.e_name = NULL, !.data = NULL, !.end_position = NULL]

RECURSIVE NameScan(_, _, _, _)
\* The e_name loop of operator++: the address next_position.name holds when
\* the loop is left, and whether it was left by the break.
NameScan(m, p, end, env) ==
  IF p >= end THEN [next |-> p, found |-> FALSE]
  ELSE IF Rd(m, p, env) = 0 THEN [next |-> p + 1, found |-> TRUE]
  ELSE IF p < BASE - 1 /\ BASE - 1 < end
  THEN NameScan(m, BASE - 1, end, env)   \* every byte from p to BASE - 1 is env.g
  ELSE NameScan(m, p + 1, end, env)

\* A variant of no_case below: an element with a tag the switch does not
\* know is accepted as one without payload.
no_case_skipping(data) == [next |-> data, ok |-> TRUE, reads |-> NoReads]

\* The switch of operator++ for a type without case: control leaves the
\* switch and reaches the goto terminate behind it.
no_case(data) == [next |-> data, ok |-> FALSE, reads |-> NoReads]

\* The payload switch of operator++ for an element of the given type whose
\* payload starts at data: [next, ok, reads].
Payload(m, type, data, end, env) ==
  LET n4 == data + 4
      length == FromLE32(Rd4(m, data, env))
      len_reads == Span(data, data + 3)
  IN  CASE type \in {type_fp64, type_int64} ->
             [next |-> data + 8, ok |-> data + 8 <= end, reads |-> NoReads]
        [] type = type_string ->
             IF ~(n4 <= end) THEN [next |-> n4, ok |-> FALSE, reads |-> NoReads]
             ELSE IF ~(length >= 1) THEN [next |-> n4, ok |-> FALSE, reads |-> len_reads]
             ELSE IF ~(PtrAdd(n4, length) <= end)
                  THEN [next |-> PtrAdd(n4, length), ok |-> FALSE, reads |-> len_reads]
             ELSE [next |-> n4 + length, ok |-> Rd(m, n4 + length - 1, env) = 0,
                   reads |-> Join(len_reads, Span(n4 + length - 1, n4 + length - 1))]
        [] type \in {type_document, type_array} ->
             IF ~(n4 <= end) THEN [next |-> n4, ok |-> FALSE, reads |-> NoReads]
             ELSE IF ~(length >= 5) THEN [next |-> n4, ok |-> FALSE, reads |-> len_reads]
             ELSE IF ~(PtrAdd(n4, length - 4) <= end)
                  THEN [next |-> PtrAdd(n4, length - 4), ok |-> FALSE, reads |-> len_reads]
             ELSE [next |-> n4 + (length - 4), ok |-> Rd(m, n4 + (length - 4) - 1, env) = 0,
                   reads |-> Join(len_reads, Span(n4 + (length - 4) - 1, n4 + (length - 4) - 1))]
        [] type = type_binary ->
             IF ~(n4 <= end) THEN [next |-> n4, ok |-> FALSE, reads |-> NoReads]
             ELSE IF ~(length >= 0) THEN [next |-> n4, ok |-> FALSE, reads |-> len_reads]
             ELSE IF length = INT32_MAX /\ env.wrap
                  THEN [next |-> (n4 - INT32_MAX) - 1, ok |-> TRUE, reads |-> len_reads]
             ELSE [next |-> PtrAdd(PtrAdd(n4, length), 1),
                   ok |-> PtrAdd(PtrAdd(n4, length), 1) <= end, reads |-> len_reads]
        [] type \in {type_undefined, type_null} ->
             [next |-> data, ok |-> TRUE, reads |-> NoReads]
        [] type = type_boolean ->
             [next |-> data + 1, ok |-> data + 1 <= end, reads |-> NoReads]
        [] type = type_int32 ->
             [next |-> n4, ok |-> n4 <= end, reads |-> NoReads]
        [] OTHER -> no_case(data)

\* operator++ from its "Get type" comment on, for an iterator whose end marker
\* is set: [it, reads, stop], reads the span of the addresses read and stop
\* the place where the function was left.
parse_next(m, it, env) ==
  IF it.next_position >= it.end_position
  THEN [it |-> terminate(it), reads |-> NoReads, stop |-> "no_type"]
  ELSE
  LET type == Rd(m, it.next_position, env)
      name == it.next_position + 1
      scan == NameScan(m, name, it.end_position, env)
      type_read == Span(it.next_position, it.next_position)
      name_reads == Span(name, scan.next - 1)
      pay == Payload(m, type, scan.next, it.end_position, env)
  IN  IF type = 0
      THEN [it |-> terminate([it EXCEPT !.next_position = NULL]), reads |-> type_read,
            stop |-> "end_of_document"]
      ELSE IF ~scan.found
      THEN [it |-> terminate([it EXCEPT !.next_position = scan.next]),
            reads |-> Join(type_read, name_reads), stop |-> "name"]
      ELSE IF ~pay.ok
      THEN [it |-> terminate([it EXCEPT !.next_position = pay.next]),
            reads |-> Join(Join(type_read, name_reads), pay.reads), stop |-> "payload"]
      ELSE [it |-> [it EXCEPT !.e_name = name, !.data = scan.next, !.next_position = pay.next],
            reads |-> Join(Join(type_read, name_reads), pay.reads), stop |-> "element"]

\* A variant of advance below: an iterator whose end marker is cleared forgets
\* the position it stopped at.
advance_forgetful(m, it, env) ==
  IF it.end_position = NULL
  THEN [it |-> [it EXCEPT !.next_position = NULL], reads |-> NoReads, stop |-> "no_more"]
  ELSE parse_next(m, it, env)

\* reader::const_iterator::operator++: [it, reads, stop].
advance(m, it, env) ==
  IF it.end_position = NULL THEN [it |-> it, reads |-> NoReads, stop |-> "no_more"]
  ELSE parse_next(m, it, env)

\* A variant of begin below: total_length is not compared with the length
\* the reader was given.
begin_unchecked(m, owner, env) ==
  IF owner.buffer = NULL THEN [it |-> end_iterator, reads |-> NoReads, stop |-> "no_buffer"]
  ELSE IF owner.length < 4
  THEN [it |-> [end_iterator EXCEPT !.next_position = owner.buffer], reads |-> NoReads,
        stop |-> "no_length"]
  ELSE
  LET total == FromLE32(Rd4(m, owner.buffer, env))
      hdr_reads == Span(owner.buffer, owner.buffer + 3)
      first == advance(m, [end_iterator EXCEPT !.end_position = owner.buffer + total,
                                               !.next_position = owner.buffer + 4], env)
  IN  IF total < 4 \/ total > 1000
      THEN [it |-> [end_iterator EXCEPT !.next_position = owner.buffer], reads |-> hdr_reads,
            stop |-> "total_length"]
      ELSE [it |-> first.it, reads |-> Join(hdr_reads, first.reads), stop |-> first.stop]

\* A variant of begin below: the buffer pointer is not tested before the length
\* field is read through it.
begin_no_null_check(m, owner, env) ==
  IF owner.length < 4
  THEN [it |-> [end_iterator EXCEPT !.next_position = owner.buffer], reads |-> NoReads,
        stop |-> "no_length"]
  ELSE
  LET total == FromLE32(Rd4(m, owner.buffer, env))
      hdr_reads == Span(owner.buffer, owner.buffer + 3)
      first == advance(m, [end_iterator EXCEPT !.end_position = owner.buffer + total,
                                               !.next_position = owner.buffer + 4], env)
  IN  IF (total < 4) \/ (total > owner.length)
      THEN [it |-> [end_iterator EXCEPT !.next_position = owner.buffer], reads |-> hdr_reads,
            stop |-> "total_length"]
      ELSE [it |-> first.it, reads |-> Join(hdr_reads, first.reads), stop |-> first.stop]

\* reader::const_iterator::const_iterator(owner): [it, reads, stop].
begin(m, owner, env) ==
  IF owner.buffer = NULL THEN [it |-> end_iterator, reads |-> NoReads, stop |-> "no_buffer"]
  ELSE IF owner.length < 4
  THEN [it |-> [end_iterator EXCEPT !.next_position = owner.buffer], reads |-> NoReads,
        stop |-> "no_length"]
  ELSE
  LET total == FromLE32(Rd4(m, owner.buffer, env))
      hdr_reads == Span(owner.buffer, owner.buffer + 3)
      first == advance(m, [end_iterator EXCEPT !.end_position = owner.buffer + total,
                                               !.next_position = owner.buffer + 4], env)
  IN  IF (total < 4) \/ (total > owner.length)
      THEN [it |-> [end_iterator EXCEPT !.next_position = owner.buffer], reads |-> hdr_reads,
            stop |-> "total_length"]
      ELSE [it |-> first.it, reads |-> Join(hdr_reads, first.reads), stop |-> first.stop]

\* reader::const_iterator::operator++(int): the copy returned and the
\* iterator after the call.
post_increment(m, it, env) ==
  [old |-> it, it |-> advance(m, it, env).it, reads |-> advance(m, it, env).reads]

\* A variant of iter_ne below: a failed iterator differs from an ended one.
iter_ne_strict(a, b) ==
  IF a.end_position # NULL
  THEN (IF b.end_position # NULL THEN a.e_name # b.e_name ELSE TRUE)
  ELSE (b.end_position # NULL) \/ (a.next_position # b.next_position)

\* reader::const_iterator::operator!= and operator==.
iter_ne(a, b) ==
  IF a.end_position # NULL
  THEN (IF b.end_position # NULL THEN a.e_name # b.e_name ELSE TRUE)
  ELSE b.end_position # NULL

iter_eq(a, b) == ~iter_ne(a, b)

\* ------------------------------------------------------- element accessors
\* An element e is [e_name, data], the two pointers of reader::element.

\* reader::element::type.
elem_type(m, e, env) == IF e.data # NULL THEN Rd(m, e.e_name - 1, env) ELSE 0

RECURSIVE CStrAt(_, _, _)
\* The C string name() points to: the bytes before the first NUL.
CStrAt(m, a, env) ==
  IF Rd(m, a, env) = 0 THEN << >> ELSE <<Rd(m, a, env)>> \o CStrAt(m, a + 1, env)

\* The n bytes at address a.
BytesAt(m, a, n, env) == [i \in 1..n |-> Rd(m, a + i - 1, env)]

\* reader::element::get_string(string, length): the pointer and the length.
get_string(m, e, env) ==
  [ok |-> elem_type(m, e, env) = type_string, string |-> e.data + 4,
   length |-> FromLE32(Rd4(m, e.data, env)) - 1]

\* reader::element::get_binary(buffer, length, subtype).
get_binary(m, e, env) ==
  [ok |-> elem_type(m, e, env) = type_binary, buffer |-> e.data + 5,
   length |-> FromLE32(Rd4(m, e.data, env)), subtype |-> Rd(m, e.data + 4, env)]

\* reader::element::get_int32.
get_int32(m, e, env) ==
  [ok |-> elem_type(m, e, env) = type_int32, value |-> FromLE32(Rd4(m, e.data, env))]

\* reader::element::get_boolean.
get_boolean(m, e, env) ==
  [ok |-> elem_type(m, e, env) = type_boolean, value |-> Rd(m, e.data, env) # 0]

\* reader::element::get_double and get_int64: the 8 bytes memcpy delivers.
get_fixed64(m, e, type, env) ==
  [ok |-> elem_type(m, e, env) = type, value |-> BytesAt(m, e.data, 8, env)]

\* The accessors below take the caller's output arguments and return
\* [ok, <the output arguments after the call>]. A double is kept as its 8
\* bytes, an int64 as the 8 bytes of its two's complement, a double converted
\* from an integer as that integer: [rep, bytes] with rep "ieee", "int32" or
\* "int64".

\* value = value_buffer for an int32_t value_buffer and an int64_t value.
SignExtend(b) == b \o (IF b[4] >= 128 THEN <<255, 255, 255, 255>> ELSE <<0, 0, 0, 0>>)

\* reader::element::valid.
elem_valid(e) == e.data # NULL

\* reader::element::get_double(value).
get_double(m, e, env, value) ==
  IF elem_type(m, e, env) # type_fp64 THEN [ok |-> FALSE, value |-> value]
  ELSE [ok |-> TRUE, value |-> BytesAt(m, e.data, 8, env)]

\* reader::element::get_string(string).
get_cstring_to(m, e, env, string) ==
  IF elem_type(m, e, env) # type_string THEN [ok |-> FALSE, string |-> string]
  ELSE [ok |-> TRUE, string |-> e.data + 4]

\* reader::element::get_string(string, length).
get_string_to(m, e, env, string, length) ==
  IF elem_type(m, e, env) # type_string
  THEN [ok |-> FALSE, string |-> string, length |-> length]
  ELSE [ok |-> TRUE, string |-> e.data + 4, length |-> FromLE32(Rd4(m, e.data, env)) - 1]

\* reader::element::get_binary(buffer, length).
get_binary_to(m, e, env, buffer, length) ==
  IF elem_type(m, e, env) # type_binary
  THEN [ok |-> FALSE, buffer |-> buffer, length |-> length]
  ELSE [ok |-> TRUE, buffer |-> e.data + 5, length |-> FromLE32(Rd4(m, e.data, env))]

\* reader::element::get_binary(buffer, length, subtype).
get_binary_subtype_to(m, e, env, buffer, length, subtype) ==
  IF elem_type(m, e, env) # type_binary
  THEN [ok |-> FALSE, buffer |-> buffer, length |-> length, subtype |-> subtype]
  ELSE [ok |-> TRUE, buffer |-> e.data + 5, length |-> FromLE32(Rd4(m, e.data, env)),
        subtype |-> Rd(m, e.data + 4, env)]

\* reader::element::get_boolean(value).
get_boolean_to(m, e, env, value) ==
  IF elem_type(m, e, env) # type_boolean THEN [ok |-> FALSE, value |-> value]
  ELSE [ok |-> TRUE, value |-> Rd(m, e.data, env) # 0]

\* reader::element::get_int32(value).
get_int32_to(m, e, env, value) ==
  IF elem_type(m, e, env) # type_int32 THEN [ok |-> FALSE, value |-> value]
  ELSE [ok |-> TRUE, value |-> FromLE32(Rd4(m, e.data, env))]

\* reader::element::get_int64(value).
get_int64(m, e, env, value) ==
  IF elem_type(m, e, env) # type_int64 THEN [ok |-> FALSE, value |-> value]
  ELSE [ok |-> TRUE, value |-> BytesAt(m, e.data, 8, env)]

\* A variant of get_integer below: the int32 is widened without its sign.
get_integer_unsigned(m, e, env, value) ==
  CASE elem_type(m, e, env) = type_int32 ->
         [ok |-> TRUE, value |-> Rd4(m, e.data, env) \o <<0, 0, 0, 0>>]
    [] elem_type(m, e, env) = type_int64 ->
         [ok |-> TRUE, value |-> BytesAt(m, e.data, 8, env)]
    [] OTHER -> [ok |-> FALSE, value |-> value]

\* reader::element::get_integer(value).
get_integer(m, e, env, value) ==
  CASE elem_type(m, e, env) = type_int32 ->
         [ok |-> TRUE, value |-> SignExtend(Rd4(m, e.data, env))]
    [] elem_type(m, e, env) = type_int64 ->
         [ok |-> TRUE, value |-> BytesAt(m, e.data, 8, env)]
    [] OTHER -> [ok |-> FALSE, value |-> value]

\* reader::element::get_number(value).
get_number(m, e, env, value) ==
  CASE elem_type(m, e, env) = type_fp64 ->
         [ok |-> TRUE, value |-> [rep |-> "ieee", bytes |-> BytesAt(m, e.data, 8, env)]]
    [] elem_type(m, e, env) = type_int32 ->
         [ok |-> TRUE, value |-> [rep |-> "int32", bytes |-> Rd4(m, e.data, env)]]
    [] elem_type(m, e, env) = type_int64 ->
         [ok |-> TRUE, value |-> [rep |-> "int64", bytes |-> BytesAt(m, e.data, 8, env)]]
    [] OTHER -> [ok |-> FALSE, value |-> value]

\* reader::element::as_double(default_value) and the other as_ accessors that
\* hand their default to the get_ accessor as its output argument.
as_double(m, e, env, default_value) == get_double(m, e, env, default_value).value
as_cstring(m, e, env, default_value) == get_cstring_to(m, e, env, default_value).string
as_boolean(m, e, env, default_value) == get_boolean_to(m, e, env, default_value).value
as_int32(m, e, env, default_value) == get_int32_to(m, e, env, default_value).value
as_int64(m, e, env, default_value) == get_int64(m, e, env, default_value).value
as_integer(m, e, env, default_value) == get_integer(m, e, env, default_value).value
as_number(m, e, env, default_value) == get_number(m, e, env, default_value).value

\* reader::element::as_string(length, default_value, default_length): the
\* pointer returned and the length stored.
as_string(m, e, env, length, default_value, default_length) ==
  LET r == get_string_to(m, e, env, NULL, length)
  IN  IF r.ok THEN [result |-> r.string, length |-> r.length]
      ELSE [result |-> default_value, length |-> default_length]

\* reader::element::as_binary(length, subtype, default_value, default_length,
\* default_subtype).
as_binary(m, e, env, length, subtype, default_value, default_length, default_subtype) ==
  LET r == get_binary_subtype_to(m, e, env, NULL, length, subtype)
  IN  IF r.ok THEN [result |-> r.buffer, length |-> r.length, subtype |-> r.subtype]
      ELSE [result |-> default_value, length |-> default_length, subtype |-> default_subtype]

\* A variant of truthy below: a string is truthy when its length field is
\* above zero.
truthy_nonzero_length(m, e, env) ==
  LET t == elem_type(m, e, env)
      b == BytesAt(m, e.data, 8, env)
      exponent == (b[8] % 128) * 16 + (b[7] \div 16)
      fraction_zero == (b[7] % 16 = 0) /\ (\A i \in 1..6 : b[i] = 0)
  IN  CASE t = type_fp64 ->
             ~(exponent = 2047 /\ ~fraction_zero) /\ ~(exponent = 0 /\ fraction_zero)
        [] t = type_string -> FromLE32(Rd4(m, e.data, env)) > 0
        [] t \in {type_document, type_array, type_binary} -> TRUE
        [] t = type_boolean -> Rd(m, e.data, env) # 0
        [] t = type_int32 -> FromLE32(Rd4(m, e.data, env)) # 0
        [] t = type_int64 -> b # <<0, 0, 0, 0, 0, 0, 0, 0>>
        [] OTHER -> FALSE

\* reader::element::truthy. For the double, std::isnan is "exponent all ones
\* and fraction not zero" and != 0.0 is "exponent or fraction not zero".
truthy(m, e, env) ==
  LET t == elem_type(m, e, env)
      b == BytesAt(m, e.data, 8, env)
      exponent == (b[8] % 128) * 16 + (b[7] \div 16)
      fraction_zero == (b[7] % 16 = 0) /\ (\A i \in 1..6 : b[i] = 0)
  IN  CASE t = type_fp64 ->
             ~(exponent = 2047 /\ ~fraction_zero) /\ ~(exponent = 0 /\ fraction_zero)
        [] t = type_string -> FromLE32(Rd4(m, e.data, env)) > 1
        [] t \in {type_document, type_array, type_binary} -> TRUE
        [] t = type_boolean -> Rd(m, e.data, env) # 0
        [] t = type_int32 -> FromLE32(Rd4(m, e.data, env)) # 0
        [] t = type_int64 -> b # <<0, 0, 0, 0, 0, 0, 0, 0>>
        [] OTHER -> FALSE

\* reader::element::falsy.
falsy(m, e, env) == ~truthy(m, e, env)

\* reader::valid.
reader_valid(r) == r.buffer # NULL

\* A variant of as_subdocument below: a document and an array are accepted
\* whichever of the two is asked for.
as_subdocument_any(m, e, default_value, type, env) ==
  IF elem_type(m, e, env) \notin {type_document, type_array} THEN default_value
  ELSE reader(e.data, FromLE32(Rd4(m, e.data, env)))

\* reader::element::as_subdocument(default_value, type).
as_subdocument(m, e, default_value, type, env) ==
  IF elem_type(m, e, env) # type THEN default_value
  ELSE reader(e.data, FromLE32(Rd4(m, e.data, env)))

\* reader::element::as_document(default_value), as_array(default_value) and
\* the overloads without argument.
as_document(m, e, default_value, env) == as_subdocument(m, e, default_value, type_document, env)
as_array(m, e, default_value, env) == as_subdocument(m, e, default_value, type_array, env)
as_document_or_invalid(m, e, env) == as_document(m, e, reader(NULL, 0), env)
as_array_or_invalid(m, e, env) == as_array(m, e, reader(NULL, 0), env)

\* ----------------------------------------------------- reading a document
\* What a caller sees of a document by iterating it with begin()/operator++
\* and the typed accessors: [elems, failed], each element
\* [type, name, val, sub] with val the value as a sequence of numbers and sub
\* the same view of a nested document or array.

NoView == [elems |-> << >>, failed |-> FALSE]

\* The value of a scalar element as the typed accessor of its type delivers it.
ScalarVal(m, e, env) ==
  LET t == elem_type(m, e, env)
  IN  CASE t \in {type_fp64, type_int64} -> get_fixed64(m, e, t, env).value
        [] t = type_string ->
             BytesAt(m, get_string(m, e, env).string, get_string(m, e, env).length, env)
        [] t = type_binary ->
             <<get_binary(m, e, env).subtype>>
               \o BytesAt(m, get_binary(m, e, env).buffer, get_binary(m, e, env).length, env)
        [] t = type_boolean -> <<IF get_boolean(m, e, env).value THEN 1 ELSE 0>>
        [] t = type_int32 -> <<get_int32(m, e, env).value>>
        [] OTHER -> << >>

RECURSIVE ViewFrom(_, _, _)
RECURSIVE View(_, _, _)
\* The elements from iterator it on, until it is ended or failed.
ViewFrom(m, it, env) ==
  IF it.end_position = NULL THEN [elems |-> << >>, failed |-> fail(it)]
  ELSE
  LET e == [e_name |-> it.e_name, data |-> it.data]
      t == elem_type(m, e, env)
      rest == ViewFrom(m, advance(m, it, env).it, env)
      this == [type |-> t, name |-> CStrAt(m, e.e_name, env), val |-> ScalarVal(m, e, env),
               sub |-> IF t \in {type_document, type_array}
                       THEN View(m, as_subdocument(m, e, reader(NULL, 0), t, env), env)
                       ELSE NoView]
  IN  [elems |-> <<this>> \o rest.elems, failed |-> rest.failed]

\* for (auto& field : reader) over the whole document.
View(m, owner, env) == ViewFrom(m, begin(m, owner, env).it, env)

\* A variant of strcmp_equal below: only the first bytes are compared.
strcmp_first_byte(m, a, s, env) == Rd(m, a, env) = (IF s = << >> THEN 0 ELSE Head(s))

RECURSIVE strcmp_equal(_, _, _, _)
\* std::strcmp(p, e_name) == 0 for the C string at address a and the C string
\* s (its bytes without the NUL).
strcmp_equal(m, a, s, env) ==
  IF s = << >> THEN Rd(m, a, env) = 0
  ELSE Rd(m, a, env) = Head(s) /\ strcmp_equal(m, a + 1, Tail(s), env)

\* element { nullptr, nullptr }.
invalid_element == [e_name |-> NULL, data |-> NULL]

RECURSIVE find_from(_, _, _, _)
\* The range-for loop of reader::find from iterator it on.
find_from(m, it, e_name, env) ==
  IF ~iter_ne(it, end_iterator) THEN invalid_element
  ELSE IF strcmp_equal(m, it.e_name, e_name, env) THEN [e_name |-> it.e_name, data |-> it.data]
  ELSE find_from(m, advance(m, it, env).it, e_name, env)

\* reader::find(e_name).
find(m, owner, e_name, env) == find_from(m, begin(m, owner, env).it, e_name, env)

\* A variant of query_size below: a total_length above the supplied length
\* is reported as not detectable.
query_size_checked(m, buffer, length, env) ==
  IF length < 4 \/ FromLE32(Rd4(m, buffer, env)) > length THEN -1
  ELSE FromLE32(Rd4(m, buffer, env))

\* reader::query_size(buffer, length).
query_size(m, buffer, length, env) ==
  IF length < 4 THEN -1 ELSE FromLE32(Rd4(m, buffer, env))

\* The environment of a machine that wraps on overflow and reads 0xAA outside.
Env0 == [g |-> 170, wrap |-> TRUE]

\* ------------------------------------------------------------ the machine

VARIABLES
  mem,      \* mem[h]: the bytes behind buffer handle h
  w,        \* w[id]: the writer object at address id
  hi,       \* hi[h]: highest index of mem[h] stored to so far (-1: none)
  fill,     \* the byte that memory nobody has written yet holds
  freed,    \* the handles ::free was called on
  born,     \* born[id]: a writer has been constructed at address id
  log,      \* log[id]: the elements appended through writer id, as a view
  nelem,    \* number of successful appends so far
  rmem,     \* the byte array handed to the reader
  rdr,      \* the reader
  iter,     \* the iterator
  reads,    \* span of the addresses the iterator has read so far
  steps,    \* number of iterator operations done (0: not constructed yet)
  ret       \* the call in progress or what the last call returned, where that is kept

\* The last operation was not one whose result is kept.
NoRet == [op |-> "none"]

wvars == <<mem, w, hi, fill, freed, born, log, nelem>>
rvars == <<rmem, rdr, iter, reads, steps, ret>>
\* The reader and its iterator.
ivars == <<rmem, rdr, iter, reads, steps>>
vars == <<mem, w, hi, fill, freed, born, log, nelem, rmem, rdr, iter, reads, steps, ret>>

\* The writer state the operators work on.
St == [mem |-> mem, w |-> w, hi |-> hi, fill |-> fill, freed |-> freed]

\* Addresses of the writer objects: the root, and the places where the writers
\* that add_document / add_array return are constructed.
Root == 1
Writers == Root..(Root + MaxDepth + 1)
\* The buffer handle of the root's buffer.
Buf == 1

\* ------------------------------------------------------------- the inputs

FillBytes == {170}
\* Element names: "a", "bc" and the empty name; the calls that differ from
\* another one only in the type tag are tried with "a" and the empty name.
Names == { <<97>>, <<98, 99>>, << >> }
FewNames == { <<97>>, << >> }
\* The names of the add_document test: "def" and "123".
Name_def == <<100, 101, 102>>
Name_123 == <<49, 50, 51>>
\* 1.5 as a double, 0x1234567890abcdef as an int64 (the values of the tests).
Double15 == <<0, 0, 0, 0, 0, 0, 248, 63>>
Int64Val == <<239, 205, 171, 144, 120, 86, 52, 18>>
Int32Vals == { -16909061 }
\* "A\0@", the string of the tests, and a string longer than the initial buffer.
Data == <<65, 0, 64>>
LongData == [i \in 1..120 |-> 66]
\* A std::size_t above INT32_MAX.
TooBig == [hi |-> 1, lo |-> 0]
StringArgs == { [string |-> Data, size |-> SizeOf(0)], [string |-> Data, size |-> SizeOf(3)],
                [string |-> LongData, size |-> SizeOf(120)],
                [string |-> Data, size |-> SizeOf(INT32_MAX)], [string |-> Data, size |-> TooBig] }
BinaryArgs == { [buffer |-> Data, size |-> SizeOf(0), subtype |-> subtype_generic],
                [buffer |-> Data, size |-> SizeOf(3), subtype |-> subtype_user_defined],
                [buffer |-> Data, size |-> TooBig, subtype |-> subtype_generic] }
FixedSizes == { SizeOf(4), SizeOf(5), SizeOf(13), SizeOf(MaxCap), TooBig }

\* ---------------------------------------------------------- ghost helpers

Scalar(type, name, val) == [type |-> type, name |-> name, val |-> val, sub |-> NoView]

\* ::realloc is only ever called for a dynamic root: the outcomes to try.
AllocOutcomes == IF \E id \in Writers : born[id] /\ w[id].malloc = 1 THEN BOOLEAN ELSE {TRUE}

\* The step of a typed append through writer id: r is what the operator returned,
\* elem the element it appends when it succeeds.
AppendStep(id, r0, elem) ==
  /\ born[id]
  /\ nelem < MaxElems
  /\ \E r \in {r0} :
       /\ mem' = r.st.mem /\ w' = r.st.w /\ hi' = r.st.hi /\ freed' = r.st.freed
       /\ log' = IF r.ok THEN [log EXCEPT ![id] = Append(@, elem)] ELSE log
       /\ nelem' = IF r.ok THEN nelem + 1 ELSE nelem
  /\ UNCHANGED <<fill, born>>
  /\ UNCHANGED ivars /\ ret' = NoRet

\* ------------------------------------------------------- writer actions

\* The state in which the caller has an array of MaxCap + Guard bytes, not
\* yet written by anybody, to hand to a fixed writer.
CallerArray == [St EXCEPT !.mem[Buf] = [i \in 0..(MaxCap + Guard - 1) |-> fill]]

\* bson::writer w(buffer, length) on the caller's array of MaxCap + Guard bytes.
NewFixed ==
  \E size \in FixedSizes :
    LET s1 == new_fixed(CallerArray, Root, Buf, size)
    IN  /\ ~born[Root]
        /\ mem' = s1.mem /\ w' = s1.w /\ hi' = s1.hi /\ freed' = s1.freed
        /\ born' = [born EXCEPT ![Root] = TRUE]
        /\ UNCHANGED <<fill, log, nelem>>
        /\ UNCHANGED ivars /\ ret' = NoRet

\* bson::writer w; ::malloc succeeds or not.
NewDynamic ==
  \E h \in {Buf, NULL} :
    LET s0 == IF h = NULL THEN St
              ELSE [St EXCEPT !.mem[Buf] = [i \in 0..(InitialLength - 1) |-> fill]]
        s1 == new_dynamic(s0, Root, h)
    IN  /\ ~born[Root]
        /\ mem' = s1.mem /\ w' = s1.w /\ hi' = s1.hi /\ freed' = s1.freed
        /\ born' = [born EXCEPT ![Root] = TRUE]
        /\ UNCHANGED <<fill, log, nelem>>
        /\ UNCHANGED ivars /\ ret' = NoRet

AddDouble ==
  \E id \in Writers, e_name \in Names, alloc_ok \in AllocOutcomes :
    AppendStep(id, add_double(St, id, e_name, Double15, alloc_ok),
               Scalar(type_fp64, e_name, Double15))

AddString ==
  \E id \in Writers, e_name \in FewNames, a \in StringArgs, alloc_ok \in AllocOutcomes :
    AppendStep(id, add_string(St, id, e_name, a.string, a.size, alloc_ok),
               Scalar(type_string, e_name, SubSeq(a.string, 1, a.size.lo)))

AddCString ==
  \E id \in Writers, e_name \in FewNames, alloc_ok \in AllocOutcomes :
    AppendStep(id, add_cstring(St, id, e_name, Data, alloc_ok),
               Scalar(type_string, e_name, SubSeq(Data, 1, strlen(Data))))

AddBinary ==
  \E id \in Writers, e_name \in FewNames, a \in BinaryArgs, alloc_ok \in AllocOutcomes :
    AppendStep(id, add_binary(St, id, e_name, a.buffer, a.size, a.subtype, alloc_ok),
               Scalar(type_binary, e_name, <<a.subtype>> \o SubSeq(a.buffer, 1, a.size.lo)))

AddBoolean ==
  \E id \in Writers, e_name \in FewNames \cup {Name_123}, value \in BOOLEAN,
     alloc_ok \in AllocOutcomes :
    AppendStep(id, add_boolean(St, id, e_name, value, alloc_ok),
               Scalar(type_boolean, e_name, <<IF value THEN 1 ELSE 0>>))

AddInt32 ==
  \E id \in Writers, e_name \in Names, value \in Int32Vals, alloc_ok \in AllocOutcomes :
    AppendStep(id, add_int32(St, id, e_name, value, alloc_ok),
               Scalar(type_int32, e_name, <<value>>))

AddInt64 ==
  \E id \in Writers, e_name \in FewNames, alloc_ok \in AllocOutcomes :
    AppendStep(id, add_int64(St, id, e_name, Int64Val, alloc_ok),
               Scalar(type_int64, e_name, Int64Val))

AddUndefined ==
  \E id \in Writers, e_name \in Names, alloc_ok \in AllocOutcomes :
    AppendStep(id, add_undefined(St, id, e_name, alloc_ok),
               Scalar(type_undefined, e_name, << >>))

AddNull ==
  \E id \in Writers, e_name \in FewNames, alloc_ok \in AllocOutcomes :
    AppendStep(id, add_null(St, id, e_name, alloc_ok),
               Scalar(type_null, e_name, << >>))

\* A writer object whose slot can be reused: none was constructed there, or
\* the one constructed there has been finalized.
Finalized(id) == born[id] /\ w[id].locked = 1 /\ w[id].ptr = NULL
FreeSlots == {c \in Writers \ {Root} : ~born[c] \/ Finalized(c)}
NewSlot == CHOOSE c \in FreeSlots : \A d \in FreeSlots : c <= d

\* auto s = w.add_document(e_name) / w.add_array(e_name): the writer returned,
\* when it is valid, is constructed at a free address.
OpenStep(id, e_name, type, alloc_ok) ==
  /\ born[id]
  /\ FreeSlots # {}
  /\ get_depth_or(St, id) < MaxDepth
  /\ nelem < MaxElems
  /\ \E r \in {add_subdocument(St, id, e_name, type, alloc_ok)} :
      LET ok == valid(r.child) IN
      /\ mem' = r.st.mem /\ hi' = r.st.hi /\ freed' = r.st.freed
      /\ w' = IF ok THEN [r.st.w EXCEPT ![NewSlot] = r.child] ELSE r.st.w
      /\ born' = IF ok THEN [born EXCEPT ![NewSlot] = TRUE] ELSE born
      /\ log' = IF ok THEN [log EXCEPT ![id] = Append(@, [type |-> type, name |-> e_name,
                                                          val |-> << >>, sub |-> NoView]),
                                       ![NewSlot] = << >>]
                ELSE log
      /\ nelem' = IF ok THEN nelem + 1 ELSE nelem
      /\ UNCHANGED fill
      /\ UNCHANGED ivars /\ ret' = NoRet

AddDocument ==
  \E id \in Writers, e_name \in Names \cup {Name_def}, alloc_ok \in AllocOutcomes :
    OpenStep(id, e_name, type_document, alloc_ok)

AddArray ==
  \E id \in Writers, e_name \in FewNames, alloc_ok \in AllocOutcomes :
    OpenStep(id, e_name, type_array, alloc_ok)

\* The destructor of writer id runs (scope end, or an explicit w.~writer()).
\* A subdocument writer that finalizes hands its elements to the parent's
\* last element.
Destroy ==
  \E id \in Writers :
    LET closes == w[id].locked = 0 /\ ~is_root(w[id])
        parent == w[id].ptr
    IN  /\ born[id]
        /\ \E s1 \in {destroy(St, id)} :
             mem' = s1.mem /\ w' = s1.w /\ hi' = s1.hi /\ freed' = s1.freed
        /\ log' = IF closes
                  THEN [log EXCEPT ![parent][Len(log[parent])].sub =
                                     [elems |-> log[id], failed |-> FALSE]]
                  ELSE log
        /\ UNCHANGED <<fill, born, nelem>>
        /\ UNCHANGED ivars /\ ret' = NoRet

\* w.get_bytes(bytes, length).
GetBytes ==
  \E id \in Writers :
    /\ born[id]
    /\ get_bytes(St, id).ok \in BOOLEAN
    /\ UNCHANGED <<mem, w, hi, fill, freed, born, log, nelem>>
    /\ UNCHANGED ivars /\ ret' = NoRet

\* w.release(length).
Release ==
  \E id \in Writers :
    /\ born[id]
    /\ \E r \in {release(St, id)} :
        /\ mem' = r.st.mem /\ w' = r.st.w /\ hi' = r.st.hi /\ freed' = r.st.freed
        /\ UNCHANGED <<fill, born, log, nelem>>
        /\ UNCHANGED ivars /\ ret' = NoRet

Init ==
  /\ fill \in FillBytes
  /\ mem = [h \in {Buf} |-> << >>]
  /\ w = [id \in Writers |-> invalid_writer]
  /\ hi = [h \in {Buf} |-> -1]
  /\ freed = {}
  /\ born = [id \in Writers |-> FALSE]
  /\ log = [id \in Writers |-> << >>]
  /\ nelem = 0
  /\ rmem = << >>
  /\ rdr = reader(NULL, 0)
  /\ iter = end_iterator
  /\ reads = NoReads
  /\ steps = 0
  /\ ret = NoRet

Next ==
  \/ NewFixed \/ NewDynamic
  \/ AddDouble \/ AddString \/ AddCString \/ AddBinary \/ AddBoolean
  \/ AddInt32 \/ AddInt64 \/ AddUndefined \/ AddNull
  \/ AddDocument \/ AddArray
  \/ Destroy \/ GetBytes \/ Release

Spec == Init /\ [][Next]_vars

\* ------------------------------------------------- the machine that grows
\* A dynamic writer and its subdocument writers, with strings long enough to
\* need one, two and three doublings of the initial capacity, and one that
\* needs more than the allocator gives.

LongSizes == { 1, 120, 300, 600, 1200 }

\* w.add_string("a", string, n) with a string of n bytes.
AddLong ==
  \E id \in Writers, n \in LongSizes, alloc_ok \in AllocOutcomes :
    AppendStep(id, add_string(St, id, <<97>>, [i \in 1..n |-> 66], SizeOf(n), alloc_ok),
               Scalar(type_string, <<97>>, [i \in 1..n |-> 66]))

NextG == NewDynamic \/ AddLong \/ AddDocument \/ Destroy

SpecG == Init /\ [][NextG]_vars

\* ------------------------------------------------ the two-writer machine
\* Two root writers, each over a buffer of its own, and the subdocument
\* writers opened on them: elements are appended, subdocuments opened and
\* finalized, a writer's document is added to a writer as a pre-built
\* document or array, and get_bytes and release are called; ret keeps what
\* the last of these calls returned.

\* The address of the second root writer and the handle of its buffer.
Src == Root + 1
SrcBuf == Buf + 1

\* How a root writer is constructed: bson::writer w; or bson::writer w(buffer, size).
RootKinds == { [malloc |-> 1, size |-> SizeOf(InitialLength)],
               [malloc |-> 0, size |-> SizeOf(MaxCap + 3)] }

\* The root writer at address id constructed over buffer h in state st.
NewRoot(st, id, h, kind) ==
  LET s0 == [st EXCEPT !.mem[h] = [i \in 0..(kind.size.lo + (1 - kind.malloc) * Guard - 1) |->
                                     st.fill]]
  IN  IF kind.malloc = 1 THEN new_dynamic(s0, id, h) ELSE new_fixed(s0, id, h, kind.size)

\* The destination is a dynamic or a fixed-buffer writer, the source a dynamic one.
InitI ==
  /\ fill \in FillBytes
  /\ \E kind \in RootKinds :
       \E s \in {NewRoot(NewRoot([mem |-> [h \in {Buf, SrcBuf} |-> << >>],
                                  w |-> [id \in Writers |-> invalid_writer],
                                  hi |-> [h \in {Buf, SrcBuf} |-> -1],
                                  fill |-> fill, freed |-> {}],
                                 Root, Buf, kind),
                         Src, SrcBuf, [malloc |-> 1, size |-> SizeOf(InitialLength)])} :
         mem = s.mem /\ w = s.w /\ hi = s.hi /\ freed = s.freed
  /\ born = [id \in Writers |-> id \in {Root, Src}]
  /\ log = [id \in Writers |-> << >>]
  /\ nelem = 0
  /\ rmem = << >>
  /\ rdr = reader(NULL, 0)
  /\ iter = end_iterator
  /\ reads = NoReads
  /\ steps = 0
  /\ ret = NoRet

\* ok = w.add_document(e_name, subdocument) / w.add_array(e_name, subdocument).
AddFrom ==
  \E id \in Writers, subdocument \in Writers :
    /\ born[id] /\ born[subdocument]
    /\ nelem < MaxElems
    /\ \E e_name \in FewNames, type \in {type_document, type_array}, alloc_ok \in AllocOutcomes,
          stale \in IF BufferOf(St, id) = BufferOf(St, subdocument) THEN StaleOutcomes
                    ELSE {"in_place"} :
         \E r \in {add_subdocument_from(St, id, e_name, type, subdocument, alloc_ok, stale)} :
           /\ mem' = r.st.mem /\ w' = r.st.w /\ hi' = r.st.hi /\ freed' = r.st.freed
           /\ log' = IF r.ok
                     THEN [log EXCEPT ![id] = Append(@, Scalar(type, e_name, << >>))]
                     ELSE log
           /\ nelem' = IF r.ok THEN nelem + 1 ELSE nelem
           /\ ret' = [op |-> "add_from", id |-> id, subdocument |-> subdocument, ok |-> r.ok]
    /\ UNCHANGED <<fill, born>>
    /\ UNCHANGED ivars

\* ok = w.get_bytes(bytes, length); bytes and length hold 0 before the call.
CallGetBytes ==
  \E id \in Writers :
    /\ born[id]
    /\ \E g \in {get_bytes(St, id)} :
         ret' = [op |-> "get_bytes", id |-> id, ok |-> g.ok, bytes |-> g.bytes,
                 length |-> g.length]
    /\ UNCHANGED wvars
    /\ UNCHANGED ivars

\* bytes = w.release(length); length holds 0 before the call.
CallRelease ==
  \E id \in Writers :
    /\ born[id]
    /\ \E r \in {release(St, id)} :
        /\ mem' = r.st.mem /\ w' = r.st.w /\ hi' = r.st.hi /\ freed' = r.st.freed
        /\ ret' = [op |-> "release", id |-> id, bytes |-> r.bytes, length |-> r.length]
    /\ UNCHANGED <<fill, born, log, nelem>>
    /\ UNCHANGED ivars

\* w.add_true("a").
AddTrue ==
  \E id \in Writers, alloc_ok \in AllocOutcomes :
    AppendStep(id, add_true(St, id, <<97>>, alloc_ok), Scalar(type_boolean, <<97>>, <<1>>))

\* w.add_string("a", string, 120) with a string of 120 bytes.
AddData ==
  \E id \in Writers, alloc_ok \in AllocOutcomes :
    AppendStep(id, add_string(St, id, <<97>>, LongData, SizeOf(120), alloc_ok),
               Scalar(type_string, <<97>>, LongData))

NextI == AddTrue \/ AddData \/ AddArray \/ Destroy \/ AddFrom

SpecI == InitI /\ [][NextI]_vars

\* -------------------------------------------- the machine that hands out
\* One root writer and its subdocument writers, with get_bytes and release
\* called on them at any time.

NextB ==
  \/ NewFixed \/ NewDynamic \/ AddBoolean \/ AddDocument \/ Destroy
  \/ CallGetBytes \/ CallRelease

SpecB == Init /\ [][NextB]_vars

\* ------------------------------------------------- the lockstep machine
\* A dynamic root writer (at Root) and a fixed-buffer root writer (at Src,
\* over 2 * InitialLength bytes) are given one and the same sequence of
\* calls: typed appends, add_document / add_array, and the end of the
\* subdocument writer's scope.  Each call is made on the writer of either tree
\* that is open for appends; the allocator may refuse the dynamic writer's
\* realloc, and the fixed buffer may be full.

\* The subdocument writer opened on root writer id is constructed here.
ChildOf(id) == id + 2

\* The writer of the tree of root id that the calls go to.
Cur(id) == IF w[id].locked = 1 /\ born[ChildOf(id)] THEN ChildOf(id) ELSE id

\* The typed appends of the sequence: [f, e_name, arg].
Ops == { [f |-> "add_true", e_name |-> <<97>>, arg |-> << >>],
         [f |-> "add_int32", e_name |-> <<98, 99>>, arg |-> << -16909061 >>],
         [f |-> "add_double", e_name |-> <<97>>, arg |-> Double15],
         [f |-> "add_string", e_name |-> <<98, 99>>, arg |-> Data],
         [f |-> "add_string", e_name |-> <<97>>, arg |-> LongData],
         [f |-> "add_binary", e_name |-> <<97>>, arg |-> Data] }

\* The call op on writer id: [st, ok].
Call(st, id, op, alloc_ok) ==
  CASE op.f = "add_true" -> add_true(st, id, op.e_name, alloc_ok)
    [] op.f = "add_int32" -> add_int32(st, id, op.e_name, op.arg[1], alloc_ok)
    [] op.f = "add_double" -> add_double(st, id, op.e_name, op.arg, alloc_ok)
    [] op.f = "add_string" ->
         add_string(st, id, op.e_name, op.arg, SizeOf(Len(op.arg)), alloc_ok)
    [] op.f = "add_binary" ->
         add_binary(st, id, op.e_name, op.arg, SizeOf(Len(op.arg)), subtype_user_defined,
                    alloc_ok)

\* The element a call appends, as the log keeps it.
Appended(op) ==
  Scalar(CASE op.f = "add_true" -> type_boolean
           [] op.f = "add_int32" -> type_int32
           [] op.f = "add_double" -> type_fp64
           [] op.f = "add_string" -> type_string
           [] op.f = "add_binary" -> type_binary,
         op.e_name,
         CASE op.f = "add_true" -> <<1>>
           [] op.f = "add_binary" -> <<subtype_user_defined>> \o op.arg
           [] OTHER -> op.arg)

InitD ==
  /\ fill \in FillBytes
  /\ \E s \in {NewRoot(NewRoot([mem |-> [h \in {Buf, SrcBuf} |-> << >>],
                                w |-> [id \in Writers |-> invalid_writer],
                                hi |-> [h \in {Buf, SrcBuf} |-> -1],
                                fill |-> fill, freed |-> {}],
                               Root, Buf, [malloc |-> 1, size |-> SizeOf(InitialLength)]),
                       Src, SrcBuf, [malloc |-> 0, size |-> SizeOf(2 * InitialLength)])} :
       mem = s.mem /\ w = s.w /\ hi = s.hi /\ freed = s.freed
  /\ born = [id \in Writers |-> id \in {Root, Src}]
  /\ log = [id \in Writers |-> << >>]
  /\ nelem = 0
  /\ rmem = << >>
  /\ rdr = reader(NULL, 0)
  /\ iter = end_iterator
  /\ reads = NoReads
  /\ steps = 0
  /\ ret = NoRet

\* The same typed append on both writers.
BothAppend ==
  \E op \in Ops, alloc_ok \in BOOLEAN :
    /\ nelem < MaxElems
    /\ \E a \in {Cur(Root)}, b \in {Cur(Src)} :
         \E r1 \in {Call(St, a, op, alloc_ok)} :
           \E r2 \in {Call(r1.st, b, op, TRUE)} :
             /\ mem' = r2.st.mem /\ w' = r2.st.w /\ hi' = r2.st.hi /\ freed' = r2.st.freed
             /\ log' = [id \in Writers |->
                          IF (id = a /\ r1.ok) \/ (id = b /\ r2.ok)
                          THEN Append(log[id], Appended(op)) ELSE log[id]]
    /\ nelem' = nelem + 1
    /\ UNCHANGED <<fill, born>>
    /\ UNCHANGED ivars /\ ret' = NoRet

\* The same add_document(e_name) / add_array(e_name) on both root writers.
BothOpen ==
  \E e_name \in {<<97>>, Name_def}, type \in {type_document, type_array}, alloc_ok \in BOOLEAN :
    /\ nelem < MaxElems
    /\ Cur(Root) = Root /\ Cur(Src) = Src
    /\ \E r1 \in {add_subdocument(St, Root, e_name, type, alloc_ok)} :
         \E r2 \in {add_subdocument(r1.st, Src, e_name, type, TRUE)} :
           /\ mem' = r2.st.mem /\ hi' = r2.st.hi /\ freed' = r2.st.freed
           /\ w' = [r2.st.w EXCEPT ![ChildOf(Root)] = r1.child, ![ChildOf(Src)] = r2.child]
           /\ born' = [born EXCEPT ![ChildOf(Root)] = valid(r1.child),
                                   ![ChildOf(Src)] = valid(r2.child)]
           /\ log' = [id \in Writers |->
                        IF (id = Root /\ valid(r1.child)) \/ (id = Src /\ valid(r2.child))
                        THEN Append(log[id], [type |-> type, name |-> e_name, val |-> << >>,
                                              sub |-> NoView])
                        ELSE IF id \in {ChildOf(Root), ChildOf(Src)} THEN << >>
                        ELSE log[id]]
    /\ nelem' = nelem + 1
    /\ UNCHANGED fill
    /\ UNCHANGED ivars /\ ret' = NoRet

\* The subdocument writers of both trees go out of scope.
BothClose ==
  /\ born[ChildOf(Root)] \/ born[ChildOf(Src)]
  /\ \E s \in {destroy(destroy(St, ChildOf(Root)), ChildOf(Src))} :
       mem' = s.mem /\ w' = s.w /\ hi' = s.hi /\ freed' = s.freed
  /\ born' = [born EXCEPT ![ChildOf(Root)] = FALSE, ![ChildOf(Src)] = FALSE]
  /\ log' = [id \in Writers |->
               IF id \in {Root, Src} /\ born[ChildOf(id)]
               THEN [log[id] EXCEPT ![Len(log[id])].sub =
                                      [elems |-> log[ChildOf(id)], failed |-> FALSE]]
               ELSE log[id]]
  /\ UNCHANGED <<fill, nelem>>
  /\ UNCHANGED ivars /\ ret' = NoRet

NextD == BothAppend \/ BothOpen \/ BothClose

SpecD == InitD /\ [][NextD]_vars

\* --------------------------------------------- the machine that measures
\* One root writer, fixed or dynamic, and its subdocument writers; strings of
\* chosen lengths are appended through the writer that is open, and ret keeps
\* the call and what it returned.

\* The lengths of the strings appended: payloads of 5, 8, 14, 15 and 125 bytes.
StringSizes == { 0, 3, 9, 10, 120 }

\* ok = w.add_string(e_name, string, length) on a valid unlocked writer.
AddSized ==
  \E id \in Writers, e_name \in {<<97>>, <<98, 99>>}, length \in StringSizes,
     alloc_ok \in AllocOutcomes :
    /\ born[id] /\ w[id].locked = 0
    /\ nelem < MaxElems
    /\ \E r \in {add_string(St, id, e_name, [i \in 1..length |-> 66], SizeOf(length), alloc_ok)} :
         /\ mem' = r.st.mem /\ w' = r.st.w /\ hi' = r.st.hi /\ freed' = r.st.freed
         /\ log' = IF r.ok
                   THEN [log EXCEPT ![id] = Append(@, Scalar(type_string, e_name,
                                                             [i \in 1..length |-> 66]))]
                   ELSE log
         /\ nelem' = IF r.ok THEN nelem + 1 ELSE nelem
         /\ ret' = [op |-> "add_string", id |-> id, e_name |-> e_name, length |-> length,
                    alloc_ok |-> alloc_ok, ok |-> r.ok]
    /\ UNCHANGED <<fill, born>>
    /\ UNCHANGED ivars

NextA == NewFixed \/ NewDynamic \/ AddSized \/ AddDocument \/ Destroy

SpecA == Init /\ [][NextA]_vars

\* ------------------------------------------ the growth at the build's widths
\* One call of add_element on a dynamic root, followed through its growth
\* branch with the widths of the build: required is a std::size_t, new_length a
\* std::uint32_t (auto of the bit-field's type), root->length a bit-field of 31
\* bits. The numbers are std::size_t values as SizeOf gives them, hi * 2^31 +
\* lo. ret holds the call: its position pc and its locals.

Plus(a, b) ==
  IF a.lo > INT32_MAX - b.lo
  THEN [hi |-> a.hi + b.hi + 1, lo |-> a.lo - (INT32_MAX - b.lo) - 1]
  ELSE [hi |-> a.hi + b.hi, lo |-> a.lo + b.lo]

Below(a, b) == a.hi < b.hi \/ (a.hi = b.hi /\ a.lo < b.lo)

\* new_length *= 2 on a std::uint32_t: modulo 2^32, bit 30 moves to bit 31.
uint32_twice(a) == [hi |-> (a.lo \div 2^30) % 2, lo |-> (a.lo % 2^30) * 2]

\* root->length = new_length: the 31 low bits are kept.
bitfield31(a) == a.lo

\* The capacities of a dynamic root: the initial one doubled any number of
\* times, as far as the 31-bit field holds them.
DynamicLengths == { InitialLength * 2^k : k \in 0..23 }

\* The space asked by an append that passes the check of its length:
\* add_string(length < INT32_MAX) and add_binary(length <= INT32_MAX) ask
\* length + 5; the fixed-size values ask 0..8.
Spaces ==
  {SizeOf(0), SizeOf(8)}
    \cup {Plus(SizeOf(length), SizeOf(5)) :
            length \in {0, 100, 2^20, 2^30 - 20, 2^30, INT32_MAX - 1, INT32_MAX}}

\* The writer entered: root->length (from keeps its value at entry), its
\* offset, its depth, a name of one character and the space of the call.
Entered(length, offset, depth, space) ==
  [op |-> "add_element", pc |-> "entered", from |-> length, length |-> length, offset |-> offset,
   required |-> Plus(Plus(SizeOf(offset + 1 + 2), space), SizeOf(1 + depth)),
   new_length |-> SizeOf(length), ok |-> FALSE]

InitL ==
  /\ fill \in FillBytes
  /\ mem = [h \in {Buf} |-> << >>]
  /\ w = [id \in Writers |-> invalid_writer]
  /\ hi = [h \in {Buf} |-> -1]
  /\ freed = {}
  /\ born = [id \in Writers |-> FALSE]
  /\ log = [id \in Writers |-> << >>]
  /\ nelem = 0
  /\ rmem = << >>
  /\ rdr = reader(NULL, 0)
  /\ iter = end_iterator
  /\ reads = NoReads
  /\ steps = 0
  /\ \E length \in DynamicLengths, depth \in 0..1, space \in Spaces :
       \E offset \in {4 + 7 * depth, length \div 2, length - 1 - depth} :
         ret = Entered(length, offset, depth, space)

\* if (root->length < required) ... auto new_length = root->length;
Measure ==
  /\ ret.op = "add_element" /\ ret.pc = "entered"
  /\ ret' = IF Below(SizeOf(ret.length), ret.required)
            THEN [ret EXCEPT !.pc = "doubling"]
            ELSE [ret EXCEPT !.pc = "done", !.ok = TRUE]
  /\ UNCHANGED wvars /\ UNCHANGED ivars

\* do { new_length *= 2; } while (new_length < required);  one turn
Double ==
  /\ ret.op = "add_element" /\ ret.pc = "doubling"
  /\ \E n \in {uint32_twice(ret.new_length)} :
       ret' = [ret EXCEPT !.new_length = n,
                          !.pc = IF Below(n, ret.required) THEN "doubling" ELSE "realloc"]
  /\ UNCHANGED wvars /\ UNCHANGED ivars

\* ::realloc gave the block: root->length = new_length;
Reallocate ==
  /\ ret.op = "add_element" /\ ret.pc = "realloc"
  /\ ret' = [ret EXCEPT !.length = bitfield31(ret.new_length), !.pc = "done", !.ok = TRUE]
  /\ UNCHANGED wvars /\ UNCHANGED ivars

\* ::realloc returned nullptr.
Refuse ==
  /\ ret.op = "add_element" /\ ret.pc = "realloc"
  /\ ret' = [ret EXCEPT !.pc = "done", !.ok = FALSE]
  /\ UNCHANGED wvars /\ UNCHANGED ivars

NextL == Measure \/ Double \/ Reallocate \/ Refuse

SpecL == InitL /\ [][NextL]_vars

\* ------------------------------------------- the machine with a null buffer
\* The fixed-buffer constructor is handed the caller's array or a null
\* pointer. mem[NULL] stands for the bytes at address 0: a store there is
\* undefined, and the build either faults (the program is over) or performs
\* the store; hi[NULL] tells whether one was performed.

NullOutcomes == { "fault", "stored" }

Fault == [op |-> "fault"]

InitN ==
  /\ fill \in FillBytes
  /\ mem = [h \in {NULL, Buf} |-> IF h = NULL THEN [i \in 0..(MaxCap + Guard - 1) |-> fill]
                                  ELSE << >>]
  /\ w = [id \in Writers |-> invalid_writer]
  /\ hi = [h \in {NULL, Buf} |-> -1]
  /\ freed = {}
  /\ born = [id \in Writers |-> FALSE]
  /\ log = [id \in Writers |-> << >>]
  /\ nelem = 0
  /\ rmem = << >>
  /\ rdr = reader(NULL, 0)
  /\ iter = end_iterator
  /\ reads = NoReads
  /\ steps = 0
  /\ ret = NoRet

\* bson::writer w(buffer, length) with buffer the caller's array or nullptr.
NewFixedOn ==
  \E buffer \in {NULL, Buf}, size \in FixedSizes, outcome \in NullOutcomes :
    \E s1 \in {new_fixed(CallerArray, Root, buffer, size)} :
      /\ ~born[Root] /\ ret # Fault
      /\ IF s1.hi[NULL] # -1 /\ outcome = "fault"
         THEN /\ ret' = Fault
              /\ UNCHANGED wvars
         ELSE /\ mem' = s1.mem /\ w' = s1.w /\ hi' = s1.hi /\ freed' = s1.freed
              /\ born' = [born EXCEPT ![Root] = TRUE]
              /\ ret' = NoRet
              /\ UNCHANGED <<fill, log, nelem>>
      /\ UNCHANGED ivars

NextN == NewFixedOn \/ AddNull \/ AddBoolean \/ AddDocument \/ Destroy

SpecN == InitN /\ [][NextN]_vars

\* --------------------------------- the machine that finalizes out of order
\* The writer machine with the destructor of a writer that still has an open
\* child kept in ret, so that the step that follows it can be told.

\* c.~writer() on a writer whose child is still open.
DestroyLocked ==
  \E id \in Writers :
    /\ born[id] /\ w[id].locked = 1 /\ valid(w[id])
    /\ \E c \in Writers : born[c] /\ ~is_root(w[c]) /\ w[c].ptr = id
    /\ \E s1 \in {destroy(St, id)} :
         mem' = s1.mem /\ w' = s1.w /\ hi' = s1.hi /\ freed' = s1.freed
    /\ ret' = [op |-> "~writer", id |-> id]
    /\ UNCHANGED <<fill, born, log, nelem>>
    /\ UNCHANGED ivars

NextO == NewFixed \/ NewDynamic \/ AddTrue \/ AddDocument \/ Destroy \/ DestroyLocked

SpecO == Init /\ [][NextO]_vars

\* ------------------------------------------- the machine that moves writers
\* The writer machine with bson::writer b(std::move(a)): the defaulted move
\* constructor, after which both objects exist and both destructors run.

\* writer::writer(writer&&) = default: b becomes a memberwise copy of a, and
\* a is left as it was.
move_construct(st, a, b) == [st EXCEPT !.w[b] = st.w[a]]

RECURSIVE RootedWithin(_, _, _)
\* The walk of get_root from writer id arrives at a root writer within n
\* steps: it neither runs through a null parent pointer nor in a circle.
RootedWithin(st, id, n) ==
  IF id = NULL \/ n = 0 THEN FALSE
  ELSE IF is_root(st.w[id]) THEN TRUE
  ELSE RootedWithin(st, st.w[id].ptr, n - 1)

Rooted(st, id) == RootedWithin(st, id, Cardinality(Writers))

\* Writer id can be worked with: its root is found and the root's buffer has
\* not been handed to ::free.
Usable(id) == Rooted(St, id) /\ w[get_root_of(St, id)].ptr \notin freed

\* Addresses at which no writer has been constructed yet.
Unused == {c \in Writers : ~born[c]}

\* bson::writer b(std::move(a)); b is constructed at an address not used
\* before.
MoveConstruct ==
  \E a \in Writers, b \in Unused :
    /\ born[a] /\ valid(w[a]) /\ ret # Fault
    /\ \A c \in Unused : b <= c
    /\ \E s1 \in {move_construct(St, a, b)} :
         mem' = s1.mem /\ w' = s1.w /\ hi' = s1.hi /\ freed' = s1.freed
    /\ born' = [born EXCEPT ![b] = TRUE]
    /\ log' = [log EXCEPT ![b] = log[a]]
    /\ ret' = [op |-> "move", from |-> a, to |-> b]
    /\ UNCHANGED <<fill, nelem>>
    /\ UNCHANGED ivars

\* w.add_true("a") on a writer that can be worked with.
AddTrueMoved ==
  \E id \in Writers, alloc_ok \in AllocOutcomes :
    /\ ret # Fault /\ born[id] /\ (w[id].locked = 1 \/ Usable(id))
    /\ AppendStep(id, add_true(St, id, <<97>>, alloc_ok), Scalar(type_boolean, <<97>>, <<1>>))

\* w.add_document(e_name) on a writer that can be worked with.
AddDocumentMoved ==
  \E id \in Writers, alloc_ok \in AllocOutcomes :
    /\ ret # Fault /\ born[id] /\ Rooted(St, id) /\ (w[id].locked = 1 \/ Usable(id))
    /\ OpenStep(id, <<97>>, type_document, alloc_ok)

\* A writer that is not locked and whose walk to the root does not arrive (a
\* parent was finalized, or its address taken by another writer), or whose
\* root's buffer has been freed, is added to, or a
\* subdocument writer of that kind is destroyed: the call dereferences a null
\* pointer or stores into freed memory, and nothing the program does
\* afterwards is followed.
UseDangling ==
  \E id \in Writers :
    /\ born[id] /\ w[id].locked = 0 /\ ret # Fault
    /\ ~Usable(id)
    /\ ret' = Fault
    /\ UNCHANGED wvars
    /\ UNCHANGED ivars

\* The destructor of writer id runs and what it does is kept: the buffer it
\* hands to ::free and the parent it unlocks and patches (NULL: none).
DestroyMoved ==
  \E id \in Writers :
    LET closes == w[id].locked = 0 /\ ~is_root(w[id])
        frees == w[id].locked = 0 /\ w[id].malloc = 1
        parent == w[id].ptr
    IN  /\ born[id] /\ ret # Fault
        /\ w[id].locked = 1 \/ is_root(w[id]) \/ Usable(id)
        /\ \E s1 \in {destroy(St, id)} :
             mem' = s1.mem /\ w' = s1.w /\ hi' = s1.hi /\ freed' = s1.freed
        /\ log' = IF closes /\ Len(log[parent]) > 0
                  THEN [log EXCEPT ![parent][Len(log[parent])].sub =
                                     [elems |-> log[id], failed |-> FALSE]]
                  ELSE log
        /\ ret' = [op |-> "~writer", id |-> id,
                   freed |-> IF frees THEN w[id].ptr ELSE NULL,
                   patched |-> IF closes THEN parent ELSE NULL]
        /\ UNCHANGED <<fill, born, nelem>>
        /\ UNCHANGED ivars

NextM ==
  \/ NewFixed \/ NewDynamic \/ AddTrueMoved \/ AddDocumentMoved
  \/ MoveConstruct \/ DestroyMoved \/ UseDangling

SpecM == Init /\ [][NextM]_vars

\* ------------------------------------------------------ the reader machine
\* A reader is handed an array and a length and is iterated; the array is a
\* document some writer produced, as it is or damaged.

\* Capacity of the writer the documents are produced with.
DocCap == 24
\* Number of operator++ calls followed after begin().
MaxAdvance == 4

\* A state with a zeroed array of DocCap bytes and a fixed writer on it.
Blank ==
  [mem |-> [h \in {Buf} |-> [i \in 0..(DocCap - 1) |-> 0]],
   w |-> [id \in Writers |-> invalid_writer],
   hi |-> [h \in {Buf} |-> -1], fill |-> 0, freed |-> {}]
Fresh == new_fixed(Blank, Root, Buf, SizeOf(DocCap))

\* { "a": "A\0@" }
DocString == BytesOf(add_string(Fresh, Root, <<97>>, Data, SizeOf(3), TRUE).st, Root)
\* { "a": binary(user_defined, A 00 @), "a": null }
DocBinary ==
  BytesOf(add_null(add_binary(Fresh, Root, <<97>>, Data, SizeOf(3), subtype_user_defined, TRUE).st,
                   Root, <<97>>, TRUE).st, Root)
\* { "a": { "a": true } }
DocNested ==
  LET s == add_subdocument(Fresh, Root, <<97>>, type_document, TRUE)
      c == Root + 1
      s1 == [s.st EXCEPT !.w[c] = s.child]
  IN  BytesOf(destroy(add_boolean(s1, c, <<97>>, TRUE, TRUE).st, c), Root)
\* { "a": int32, "bc": double }
DocScalars ==
  BytesOf(add_double(add_int32(Fresh, Root, <<97>>, -16909061, TRUE).st,
                     Root, <<98, 99>>, Double15, TRUE).st, Root)

Docs == { DocString, DocBinary, DocNested, DocScalars }

\* The values a damaged byte takes: every type tag, an unsupported tag, 0xFF.
DamagedBytes == { 0, 1, 2, 3, 4, 5, 6, 7, 8, 10, 16, 18, 255 }
\* The values a damaged 32-bit length takes.
DamagedWords == { INT32_MAX, INT32_MAX - 1, -1 }

\* Document d with one byte damaged, with its first byte (the low byte of
\* total_length) set to anything around its length, or with four consecutive
\* bytes replaced by a damaged length.
Damaged(d) ==
  LET n == Cardinality(DOMAIN d)
  IN  {d}
      \cup { [d EXCEPT ![i] = v] : i \in 1..(n - 1), v \in DamagedBytes }
      \cup { [d EXCEPT ![0] = v] : v \in 0..(n + 3) }
      \cup { [k \in DOMAIN d |-> IF k \in i..(i + 3) THEN LE32(x)[k - i + 1] ELSE d[k]] :
               i \in 0..(n - 4), x \in DamagedWords }

\* The caller's array: the document followed by two bytes of something else.
Padded(d) ==
  LET n == Cardinality(DOMAIN d)
  IN  [k \in 0..(n + 1) |-> IF k < n THEN d[k] ELSE 170]

\* The lengths a caller supplies with an array of n + 2 bytes holding a
\* document of n bytes.
SuppliedLengths(n) == { 0, 3, 4, n - 1, n, n + 2 }

\* What the machine may do where the C++ leaves it open.
Envs == { [g |-> 170, wrap |-> TRUE], [g |-> 170, wrap |-> FALSE], [g |-> 0, wrap |-> TRUE] }

InitR ==
  /\ fill \in FillBytes
  /\ mem = [h \in {Buf} |-> << >>]
  /\ w = [id \in Writers |-> invalid_writer]
  /\ hi = [h \in {Buf} |-> -1]
  /\ freed = {}
  /\ born = [id \in Writers |-> FALSE]
  /\ log = [id \in Writers |-> << >>]
  /\ nelem = 0
  /\ \E d \in Docs : \E m \in Damaged(d) :
       /\ rmem = Padded(m)
       /\ \E length \in SuppliedLengths(Cardinality(DOMAIN d)), buffer \in {BASE, NULL} :
            rdr = reader(buffer, length)
  /\ iter = end_iterator
  /\ reads = NoReads
  /\ steps = 0
  /\ ret = NoRet

\* auto it = r.begin();
Begin ==
  /\ steps = 0
  /\ \E env \in Envs : \E r \in {begin(rmem, rdr, env)} :
       /\ iter' = r.it
       /\ reads' = Join(reads, r.reads)
  /\ steps' = 1
  /\ ret' = NoRet
  /\ UNCHANGED <<rmem, rdr>>
  /\ UNCHANGED wvars

\* ++it;
Advance ==
  /\ steps >= 1 /\ steps <= MaxAdvance
  /\ \E env \in Envs : \E r \in {advance(rmem, iter, env)} :
       /\ iter' = r.it
       /\ reads' = Join(reads, r.reads)
  /\ steps' = steps + 1
  /\ ret' = NoRet
  /\ UNCHANGED <<rmem, rdr>>
  /\ UNCHANGED wvars

NextR == Begin \/ Advance

SpecR == InitR /\ [][NextR]_vars

\* The names looked up: "a", "bc", "b" and the empty name.
Lookups == { <<97>>, <<98, 99>>, <<98>>, << >> }

\* Lengths of at least 4 a caller may pass with the same buffer.
LongerLengths == { 4, 5, DocCap, INT32_MAX }

\* auto e = r.find(name);
Find ==
  /\ \E name \in Lookups, env \in Envs :
       ret' = [op |-> "find", name |-> name, env |-> env, value |-> find(rmem, rdr, name, env)]
  /\ UNCHANGED ivars
  /\ UNCHANGED wvars

\* int n = bson::reader::query_size(buffer, length);
QuerySize ==
  /\ \E length \in (0..3) \cup {rdr.length} \cup LongerLengths, env \in Envs :
       ret' = [op |-> "query_size", length |-> length,
               value |-> query_size(rmem, rdr.buffer, length, env)]
  /\ UNCHANGED ivars
  /\ UNCHANGED wvars

NextF == Find \/ QuerySize

\* The reader's own functions on the damaged documents.
SpecF == InitR /\ [][NextF]_vars

\* ----------------------------------------------- the machine on one element
\* The reader machine over documents of one element named "a": every type tag
\* (the ten supported ones and four others) with every payload below.

\* The array holding the bytes of a sequence, first byte at index 0.
Arr(bytes) == [i \in 0..(Len(bytes) - 1) |-> bytes[i + 1]]

\* total_length, the element (tag, "a", payload) and the 0x00 that ends the document.
ElemDoc(tag, payload) == Arr(LE32(8 + Len(payload)) \o <<tag, 97, 0>> \o payload \o <<0>>)

Tags == { type_fp64, type_string, type_document, type_array, type_binary, type_undefined,
          type_boolean, type_null, type_int32, type_int64, 7, 9, 17, 255 }

\* 1.5, 0.0, -0.0, two NaNs, infinity, the smallest denormal, a value whose
\* low 32 bits are zero, 0x1234567890abcdef and all bits set.
Payloads8 ==
  { Double15, <<0, 0, 0, 0, 0, 0, 0, 0>>, <<0, 0, 0, 0, 0, 0, 0, 128>>,
    <<0, 0, 0, 0, 0, 0, 248, 127>>, <<1, 0, 0, 0, 0, 0, 240, 255>>,
    <<0, 0, 0, 0, 0, 0, 240, 127>>, <<1, 0, 0, 0, 0, 0, 0, 0>>,
    <<0, 0, 0, 0, 1, 0, 0, 0>>, Int64Val, <<255, 255, 255, 255, 255, 255, 255, 255>> }
\* int32 0, 1 and 0xfefdfcfb; "", "A" and "A\0@" as strings; one byte 0, 1
\* and 2; nothing; {} and {"a": true}; an empty and a three-byte binary.
Payloads ==
  Payloads8 \cup
  { LE32(0), LE32(1), LE32(-16909061),
    <<1, 0, 0, 0, 0>>, <<2, 0, 0, 0, 65, 0>>, <<4, 0, 0, 0, 65, 0, 64, 0>>,
    <<0>>, <<1>>, <<2>>, << >>,
    <<5, 0, 0, 0, 0>>, <<9, 0, 0, 0, 8, 97, 0, 1, 0>>,
    <<0, 0, 0, 0, 128>>, <<3, 0, 0, 0, 128, 65, 0, 64>> }

InitE ==
  /\ fill \in FillBytes
  /\ mem = [h \in {Buf} |-> << >>]
  /\ w = [id \in Writers |-> invalid_writer]
  /\ hi = [h \in {Buf} |-> -1]
  /\ freed = {}
  /\ born = [id \in Writers |-> FALSE]
  /\ log = [id \in Writers |-> << >>]
  /\ nelem = 0
  /\ \E tag \in Tags, payload \in Payloads :
       /\ rmem = Padded(ElemDoc(tag, payload))
       /\ rdr = reader(BASE, 8 + Len(payload))
  /\ iter = end_iterator
  /\ reads = NoReads
  /\ steps = 0
  /\ ret = NoRet

\* reader::const_iterator::operator*: the element the iterator holds.
Current == [e_name |-> iter.e_name, data |-> iter.data]

\* Values the caller's output arguments hold before a call.
Bytes0 == <<9, 9, 9, 9, 9, 9, 9, 9>>
Number0 == [rep |-> "ieee", bytes |-> Bytes0]
Out0 == [ptr |-> 7, len |-> 77, sub |-> 99, int |-> 12345]

Getters ==
  { "get_double", "get_string", "get_string_length", "get_binary", "get_binary_subtype",
    "get_boolean", "get_int32", "get_int64", "get_integer", "get_number",
    "as_double", "as_string", "as_string_length", "as_binary", "as_boolean", "as_int32",
    "as_int64", "as_integer", "as_number" }

\* The call of accessor op on element e with the output arguments (or the
\* default) set to the values above, a bool argument to flag.
CallGetter(op, e, env, flag) ==
  CASE op = "get_double" -> get_double(rmem, e, env, Bytes0)
    [] op = "get_string" -> get_cstring_to(rmem, e, env, Out0.ptr)
    [] op = "get_string_length" -> get_string_to(rmem, e, env, Out0.ptr, Out0.len)
    [] op = "get_binary" -> get_binary_to(rmem, e, env, Out0.ptr, Out0.len)
    [] op = "get_binary_subtype" ->
         get_binary_subtype_to(rmem, e, env, Out0.ptr, Out0.len, Out0.sub)
    [] op = "get_boolean" -> get_boolean_to(rmem, e, env, flag)
    [] op = "get_int32" -> get_int32_to(rmem, e, env, Out0.int)
    [] op = "get_int64" -> get_int64(rmem, e, env, Bytes0)
    [] op = "get_integer" -> get_integer(rmem, e, env, Bytes0)
    [] op = "get_number" -> get_number(rmem, e, env, Number0)
    [] op = "as_double" -> as_double(rmem, e, env, Bytes0)
    [] op = "as_string" -> as_cstring(rmem, e, env, Out0.ptr)
    [] op = "as_string_length" -> as_string(rmem, e, env, Out0.len, Out0.ptr, 3)
    [] op = "as_binary" ->
         as_binary(rmem, e, env, Out0.len, Out0.sub, Out0.ptr, 3, subtype_generic)
    [] op = "as_boolean" -> as_boolean(rmem, e, env, flag)
    [] op = "as_int32" -> as_int32(rmem, e, env, Out0.int)
    [] op = "as_int64" -> as_int64(rmem, e, env, Bytes0)
    [] op = "as_integer" -> as_integer(rmem, e, env, Bytes0)
    [] op = "as_number" -> as_number(rmem, e, env, Number0)

\* A typed accessor is called on the element the iterator holds.
Get ==
  /\ steps >= 1
  /\ \E op \in Getters, env \in Envs :
       \E flag \in (IF op \in {"get_boolean", "as_boolean"} THEN BOOLEAN ELSE {FALSE}) :
         ret' = [op |-> op, flag |-> flag, value |-> CallGetter(op, Current, env, flag)]
  /\ UNCHANGED ivars
  /\ UNCHANGED wvars

\* The elements truthy is applied to: the one the iterator holds, and, when
\* the first tag of the document is not a supported one, an element made of
\* the pointers to the first name and to the byte after it.
Probed ==
  {Current} \cup
  (IF rmem[4] \in {7, 9, 17, 255} THEN {[e_name |-> BASE + 5, data |-> BASE + 7]} ELSE {})

\* e.truthy() or e.falsy().
Truthy ==
  /\ steps >= 1
  /\ \E e \in Probed, env \in Envs :
       \/ ret' = [op |-> "truthy", e |-> e, value |-> truthy(rmem, e, env)]
       \/ ret' = [op |-> "falsy", e |-> e, value |-> falsy(rmem, e, env)]
  /\ UNCHANGED ivars
  /\ UNCHANGED wvars

\* The readers a caller passes as default.
DefaultReaders == { reader(NULL, 0), reader(BASE, 5) }

\* e.as_document(default), e.as_array(default), e.as_document(), e.as_array()
\* on the element the iterator holds.
AsDocument ==
  /\ steps >= 1
  /\ \E dflt \in DefaultReaders, env \in Envs :
       \/ ret' = [op |-> "as_document", dflt |-> dflt,
                  value |-> as_document(rmem, Current, dflt, env)]
       \/ ret' = [op |-> "as_array", dflt |-> dflt,
                  value |-> as_array(rmem, Current, dflt, env)]
       \/ ret' = [op |-> "as_document()", dflt |-> reader(NULL, 0),
                  value |-> as_document_or_invalid(rmem, Current, env)]
       \/ ret' = [op |-> "as_array()", dflt |-> reader(NULL, 0),
                  value |-> as_array_or_invalid(rmem, Current, env)]
  /\ UNCHANGED ivars
  /\ UNCHANGED wvars

NextE == Begin \/ Advance \/ Get \/ Truthy \/ AsDocument

SpecE == InitE /\ [][NextE]_vars

\* ------------------------------------------------------------ properties

\* What a reader over the bytes of writer id sees.
ReadBack(st, id) == View(BytesOf(st, id), reader(BASE, get_bytes(st, id).length), Env0)

\* C1: whenever get_bytes succeeds on a writer, a reader over the bytes it
\* returns iterates without failure and yields exactly the elements appended
\* through that writer, in order, with their names, types and values; nested
\* documents and arrays yield their own elements the same way.
C1_RoundTrip ==
  \A id \in Writers :
    (born[id] /\ get_bytes(St, id).ok) =>
      ReadBack(St, id) = [elems |-> log[id], failed |-> FALSE]

\* C1 witness: the root can be read back and holds a finalized nested document
\* with an element of its own, followed by a further element.
C1_Witness ==
  /\ born[Root] /\ get_bytes(St, Root).ok
  /\ Len(log[Root]) = 2
  /\ log[Root][1].type = type_document
  /\ log[Root][1].sub.elems # << >>
  /\ ReadBack(St, Root).elems = log[Root]

\* The document of writer id is in order: its length field holds the number of
\* bytes from that field through the byte at the writer's offset, and that
\* byte, the document's terminator, is 0.
SpanInOrder(st, id) ==
  LET h == st.w[get_root_of(st, id)].ptr
      first == header_offset(st, id)
  IN  /\ FromLE32([i \in 1..4 |-> st.mem[h][first + i - 1]]) = st.w[id].offset + 1 - first
      /\ st.mem[h][st.w[id].offset] = 0

\* C2 (as amended): the document of every writer that accepts appends (the
\* root with no open child, or the innermost open subdocument) has a length
\* field equal to its span through its own terminator, and that terminator
\* is 0x00; so after each successful append the document of the writer that
\* appended is in order, the root's once its children are finalized.
C2_OwnSpanInOrder ==
  \A id \in Writers : (born[id] /\ w[id].locked = 0) => SpanInOrder(St, id)

\* C2 witness: an element was appended through an open subdocument writer,
\* whose document is in order while the root's is not.
C2_Witness ==
  \E id \in Writers \ {Root} :
    /\ born[id] /\ w[id].locked = 0 /\ log[id] # << >>
    /\ SpanInOrder(St, id)
    /\ ~SpanInOrder(St, Root)

\* C2 as stated: after every successful append, through whichever writer, the
\* root's length field spans through the root's own terminator, which is 0x00.
C2_AsStated == [][(nelem' = nelem + 1) => SpanInOrder(St, Root)']_vars

\* The open children of writer id: the subdocument writers constructed on it
\* that have not been finalized.
OpenChildren(id) ==
  {c \in Writers : born[c] /\ ~is_root(w[c]) /\ w[c].ptr = id}

\* C3: a writer has at most one open child, and add_document / add_array on a
\* writer that has an open child returns an invalid writer and changes
\* nothing: no byte of the buffer, no writer's offset.
C3_Exclusive ==
  \A id \in Writers :
    /\ Cardinality(OpenChildren(id)) <= 1
    /\ (born[id] /\ OpenChildren(id) # {}) =>
         \A e_name \in Names, type \in {type_document, type_array}, alloc_ok \in BOOLEAN :
           \A r \in {add_subdocument(St, id, e_name, type, alloc_ok)} :
             ~valid(r.child) /\ r.st = St

\* C3 witness: the root has an open child, a further subdocument writer could
\* be constructed and would fit, and add_document on the root is refused.
C3_Witness ==
  /\ born[Root] /\ Cardinality(OpenChildren(Root)) = 1
  /\ FreeSlots # {} /\ nelem < MaxElems
  /\ w[Root].offset + 9 + 1 <= w[Root].length
  /\ ~valid(add_subdocument(St, Root, <<97>>, type_document, TRUE).child)

RECURSIVE DocLen(_)
\* The number of bytes the document with the given elements spans: its length
\* field, its elements (type, name, NUL, payload) and its terminator.
DocLen(elems) ==
  IF elems = << >> THEN 5
  ELSE LET e == Head(elems)
           payload == CASE e.type \in {type_document, type_array} -> DocLen(e.sub.elems)
                        [] e.type = type_string -> 4 + Len(e.val) + 1
                        [] e.type = type_binary -> 4 + Len(e.val)
                        [] OTHER -> Len(e.val) * (IF e.type = type_int32 THEN 4 ELSE 1)
       IN  1 + Len(e.name) + 1 + payload + DocLen(Tail(elems))

RECURSIVE Nested(_, _, _)
\* The document that starts at index first of m and holds the given elements
\* has, at every level of nesting, a length field equal to its span and a 0x00
\* as its last byte.
Nested(m, first, elems) ==
  /\ FromLE32([i \in 1..4 |-> m[first + i - 1]]) = DocLen(elems)
  /\ m[first + DocLen(elems) - 1] = 0
  /\ \A k \in 1..Len(elems) :
       elems[k].type \in {type_document, type_array} =>
         Nested(m, first + DocLen(SubSeq(elems, 1, k - 1)) - 1 + Len(elems[k].name) + 2,
                elems[k].sub.elems)

\* The step finalizes subdocument writer c.
Finalizes(c) ==
  born[c] /\ ~is_root(w[c]) /\ w[c].ptr # NULL /\ w[c].locked = 0 /\ w'[c].ptr = NULL

\* What finalizing c does to its immediate parent p: p is unlocked, its
\* terminator is the byte after c's terminator, its length field spans through
\* it, and no other byte of the buffer changes.
BackPatched(c) ==
  LET p == w[c].ptr
      first == header_offset(St, p)
  IN  /\ w'[p].locked = 0
      /\ w'[p].offset = w[c].offset + 1
      /\ SpanInOrder(St', p)
      /\ \A i \in DOMAIN mem[Buf] :
           (i \notin first..(first + 3) /\ i # w[c].offset + 1) => mem'[Buf][i] = mem[Buf][i]

\* C4: finalizing a subdocument writer patches exactly its immediate parent's
\* length field and terminator; and once a writer has no open child, every
\* document at every level of nesting below it has a length field equal to
\* its byte span and ends in 0x00.
C4_BackPatching ==
  /\ [][\A c \in Writers : Finalizes(c) => BackPatched(c)]_vars
  /\ [](\A id \in Writers :
          (born[id] /\ w[id].locked = 0) =>
            Nested(mem[Buf], header_offset(St, id), log[id]))

\* C4 witness: the example root > "def" > true "123", both levels closed
\* innermost-first: the root's length is 0x15, the nested document's 0x0b.
C4_Witness ==
  /\ born[Root] /\ w[Root].locked = 0
  /\ Len(log[Root]) = 1 /\ log[Root][1].type = type_document /\ log[Root][1].name = Name_def
  /\ log[Root][1].sub.elems = << Scalar(type_boolean, Name_123, <<1>>) >>
  /\ mem[Buf][0] = 21 /\ mem[Buf][9] = 11 /\ mem[Buf][19] = 0 /\ mem[Buf][20] = 0

\* C4 witness of depth: a writer two levels below the root has been finalized
\* after an append, and then its parent.
C4_DeepWitness ==
  /\ born[Root] /\ w[Root].locked = 0 /\ Len(log[Root]) = 1
  /\ log[Root][1].sub.elems # << >>
  /\ log[Root][1].sub.elems[1].sub.elems # << >>

\* Every add_* call on writer id in state st, with whatever arguments and
\* whatever the allocator would do, returns failure.
EveryAddFails(st, id) ==
  \A e_name \in Names, alloc_ok \in BOOLEAN :
    /\ \A space \in {0, 1, 5, 8} : add_element(st, id, e_name, type_null, space, alloc_ok).dest = NULL
    /\ ~add_double(st, id, e_name, Double15, alloc_ok).ok
    /\ \A a \in StringArgs : ~add_string(st, id, e_name, a.string, a.size, alloc_ok).ok
    /\ ~add_cstring(st, id, e_name, Data, alloc_ok).ok
    /\ \A a \in BinaryArgs :
         /\ ~add_binary(st, id, e_name, a.buffer, a.size, a.subtype, alloc_ok).ok
         /\ add_binary_nocopy(st, id, e_name, a.size, a.subtype, alloc_ok).dest = NULL
    /\ \A value \in BOOLEAN : ~add_boolean(st, id, e_name, value, alloc_ok).ok
    /\ \A value \in Int32Vals : ~add_int32(st, id, e_name, value, alloc_ok).ok
    /\ ~add_int64(st, id, e_name, Int64Val, alloc_ok).ok
    /\ ~add_undefined(st, id, e_name, alloc_ok).ok
    /\ ~add_null(st, id, e_name, alloc_ok).ok
    /\ \A type \in {type_document, type_array} :
         ~valid(add_subdocument(st, id, e_name, type, alloc_ok).child)

\* After c is finalized its parent p is unlocked, get_bytes on p succeeds, and
\* an append through p that succeeds puts its type byte and name directly
\* after c's terminator.
ParentResumes(c) ==
  LET p == w[c].ptr
      at == w[c].offset + 1
  IN  /\ w'[p].locked = 0
      /\ get_bytes(St', p).ok
      /\ \A value \in BOOLEAN : \A r \in {add_boolean(St', p, <<97>>, value, TRUE)} :
           r.ok => /\ r.st.mem[Buf][at] = type_boolean
                   /\ r.st.mem[Buf][at + 1] = 97 /\ r.st.mem[Buf][at + 2] = 0
                   /\ r.st.mem[Buf][at + 3] = (IF value THEN 1 ELSE 0)

\* C5: while a writer has an open child every add_* call on it fails and
\* get_bytes on it returns false; the step that finalizes the child unlocks
\* the parent, get_bytes on it succeeds again, and its next append is placed
\* directly after the child's nested document.
C5_LockedWhileChildOpen ==
  /\ [](\A id \in Writers :
          (born[id] /\ OpenChildren(id) # {}) =>
            (EveryAddFails(St, id) /\ ~get_bytes(St, id).ok))
  /\ [][\A c \in Writers : Finalizes(c) => ParentResumes(c)]_vars

\* C5 witness: the root's child has been finalized and the root has appended
\* again: the second element of the root starts right after the nested document.
C5_Witness ==
  /\ born[Root] /\ w[Root].locked = 0 /\ Len(log[Root]) = 2
  /\ log[Root][1].type = type_document /\ log[Root][1].sub.elems # << >>
  /\ get_bytes(St, Root).ok
  /\ mem[Buf][4 + Len(log[Root][1].name) + 2 + DocLen(log[Root][1].sub.elems)] = log[Root][2].type

\* C5 witness of the locked case: the root has an open child that has
\* appended, and the buffer has room for more.
C5_LockedWitness ==
  /\ born[Root] /\ OpenChildren(Root) # {} /\ w[Root].locked = 1
  /\ \E c \in OpenChildren(Root) : log[c] # << >>
  /\ w[Root].offset + 8 <= w[Root].length
  /\ ~get_bytes(St, Root).ok

\* Every add_* call on writer id in state st that returns failure returns
\* with the state it was called in: the bytes of the buffer, every writer's
\* offset, locked flag, capacity and buffer pointer.
FailuresChangeNothing(st, id) ==
  \A e_name \in FewNames, alloc_ok \in AllocOutcomes :
    /\ \A space \in {0, 120} : \A r \in {add_element(st, id, e_name, type_null, space, alloc_ok)} :
         r.dest = NULL => r.st = st
    /\ \A r \in {add_double(st, id, e_name, Double15, alloc_ok)} : ~r.ok => r.st = st
    /\ \A a \in StringArgs : \A r \in {add_string(st, id, e_name, a.string, a.size, alloc_ok)} :
         ~r.ok => r.st = st
    /\ \A r \in {add_cstring(st, id, e_name, Data, alloc_ok)} : ~r.ok => r.st = st
    /\ \A a \in BinaryArgs :
         /\ \A r \in {add_binary(st, id, e_name, a.buffer, a.size, a.subtype, alloc_ok)} :
              ~r.ok => r.st = st
         /\ \A r \in {add_binary_nocopy(st, id, e_name, a.size, a.subtype, alloc_ok)} :
              r.dest = NULL => r.st = st
    /\ \A value \in BOOLEAN : \A r \in {add_boolean(st, id, e_name, value, alloc_ok)} :
         ~r.ok => r.st = st
    /\ \A value \in Int32Vals : \A r \in {add_int32(st, id, e_name, value, alloc_ok)} :
         ~r.ok => r.st = st
    /\ \A r \in {add_int64(st, id, e_name, Int64Val, alloc_ok)} : ~r.ok => r.st = st
    /\ \A r \in {add_undefined(st, id, e_name, alloc_ok)} : ~r.ok => r.st = st
    /\ \A r \in {add_null(st, id, e_name, alloc_ok)} : ~r.ok => r.st = st
    /\ \A type \in {type_document, type_array} :
         \A r \in {add_subdocument(st, id, e_name, type, alloc_ok)} : ~valid(r.child) => r.st = st

\* C6: an add_* call that returns failure (the writer is locked, the name is
\* empty, the payload does not fit the fixed buffer, the value is oversize,
\* the allocator has no memory) leaves every byte of the buffer, every
\* writer's offset and locked flag, and the capacity as they were.
C6_FailureAtomic ==
  \A id \in Writers : born[id] => FailuresChangeNothing(St, id)

\* C6 witness: a fixed writer that holds an element and is unlocked refuses a
\* string that does not fit, a string that is oversize and an empty name,
\* while a small element would still be accepted.
C6_Witness ==
  /\ born[Root] /\ w[Root].locked = 0 /\ w[Root].malloc = 0 /\ log[Root] # << >>
  /\ ~add_string(St, Root, <<97>>, LongData, SizeOf(120), TRUE).ok
  /\ ~add_string(St, Root, <<97>>, Data, SizeOf(INT32_MAX), TRUE).ok
  /\ ~add_null(St, Root, << >>, TRUE).ok
  /\ add_null(St, Root, <<97>>, TRUE).ok

\* C7: a fixed-buffer writer of capacity C never stores to an index >= C,
\* whatever the appends, subdocument opens and finalizations; every open
\* subdocument writer keeps one byte per ancestor free behind its own
\* terminator, so the terminators its ancestors write when it is finalized
\* lie inside the buffer.
C7_FixedInBounds ==
  (born[Root] /\ w[Root].malloc = 0 /\ w[Root].length > 0) =>
    /\ hi[Buf] < w[Root].length
    /\ \A c \in Writers :
         (born[c] /\ w[c].ptr # NULL /\ get_root_of(St, c) = Root) =>
           w[c].offset + get_depth(St, c) < w[Root].length

\* C7 witness: a fixed buffer filled to its last byte by a nested append and
\* the finalization after it: the root's terminator is at index C - 1.
C7_Witness ==
  /\ born[Root] /\ w[Root].malloc = 0 /\ w[Root].locked = 0
  /\ Len(log[Root]) = 1 /\ log[Root][1].sub.elems # << >>
  /\ w[Root].offset = w[Root].length - 1
  /\ hi[Buf] = w[Root].length - 1

\* The capacities tried on the fixed-buffer constructor: both sides of 5, both
\* sides of INT32_MAX, and one whose low 31 bits alone would be acceptable.
Capacities ==
  FixedSizes \cup { SizeOf(0), SizeOf(INT32_MAX - 1), SizeOf(INT32_MAX), [hi |-> 1, lo |-> 5] }

\* writer id is inert in state st: invalid, and every add_*, get_bytes and
\* release on it fails and leaves the state as it is.
Inert(st, id) ==
  /\ ~valid(st.w[id]) /\ st.w[id].locked = 1
  /\ EveryAddFails(st, id)
  /\ FailuresChangeNothing(st, id)
  /\ ~get_bytes(st, id).ok
  /\ release(st, id).bytes = NULL /\ release(st, id).st = st

\* What bson::writer w(buffer, size) leaves behind.
Constructed(size) ==
  \A s \in {new_fixed(CallerArray, Root, Buf, size)} :
    IF SizeLt(size, 5) \/ SizeGt(size, INT32_MAX)
    THEN /\ Inert(s, Root)
         /\ s.hi[Buf] = -1
         /\ s.mem = CallerArray.mem
    ELSE /\ valid(s.w[Root]) /\ s.w[Root].locked = 0 /\ s.w[Root].length = size.lo
         /\ [i \in 1..5 |-> s.mem[Buf][i - 1]] = <<5, 0, 0, 0, 0>>
         /\ s.hi[Buf] = 4
         /\ \A i \in DOMAIN s.mem[Buf] : i > 4 => s.mem[Buf][i] = CallerArray.mem[Buf][i]

\* C8: a fixed writer constructed with a capacity below 5 or above INT32_MAX
\* is invalid and locked, has not written to the buffer, and stays that way:
\* every add_*, get_bytes and release on it fails, in every later state; with
\* a capacity in [5, INT32_MAX] the writer is valid and the buffer holds
\* 05 00 00 00 00 with no byte beyond index 4 touched.
C8_FixedConstruction ==
  /\ [](~born[Root] => \A size \in Capacities : Constructed(size))
  /\ []((born[Root] /\ ~valid(w[Root])) => Inert(St, Root))
  /\ [][(born[Root] /\ ~valid(w[Root])) => (w' = w /\ mem' = mem /\ hi' = hi)]_vars

\* C8 witness: a writer constructed on the caller's array with a capacity out
\* of range: it is invalid and the array is as the caller left it.
C8_Witness ==
  /\ born[Root] /\ ~valid(w[Root]) /\ w[Root].locked = 1
  /\ DOMAIN mem[Buf] = 0..(MaxCap + Guard - 1)
  /\ \A i \in DOMAIN mem[Buf] : mem[Buf][i] = fill
  /\ hi[Buf] = -1

\* C8 witness of the valid case: capacity 5, the empty document and nothing else.
C8_ValidWitness ==
  /\ born[Root] /\ valid(w[Root]) /\ w[Root].length = 5 /\ w[Root].malloc = 0
  /\ hi[Buf] = 4 /\ mem[Buf][0] = 5 /\ mem[Buf][4] = 0 /\ mem[Buf][5] = fill

\* The total_length the reader's array declares in its first four bytes.
Declared == FromLE32(Rd4(rmem, rdr.buffer, Env0))

C9_NoReadBeyondEnd ==
  reads = NoReads \/
    /\ reads.hi - rdr.buffer < rdr.length
    /\ Declared >= 4 => reads.hi - rdr.buffer < Declared

\* The reader is one that construction of an iterator must reject.
Rejected == rdr.length < 4 \/ Declared < 4 \/ Declared > rdr.length

\* C10: an iterator made from a reader (with a buffer) whose length is below
\* 4, or whose declared total_length is below 4 or above the supplied length,
\* is failed from the start and stays so: fail() is true, it holds no element
\* and equals end(); a supplied length above the declared total_length is
\* accepted: the iterator is the one a supplied length equal to the declared
\* total_length gives.
C10_RejectedAtConstruction ==
  (steps >= 1 /\ rdr.buffer # NULL) =>
    /\ Rejected =>
         /\ fail(iter) /\ iter.e_name = NULL /\ iter.data = NULL
         /\ iter_eq(iter, end_iterator)
         /\ iter.next_position = rdr.buffer
    /\ (steps = 1 /\ ~Rejected) =>
         iter \in {begin(rmem, reader(rdr.buffer, Declared), env).it : env \in Envs}

\* C10 witness: a supplied length two bytes above the declared total_length,
\* and the iterator stands on the first element.
C10_Witness ==
  /\ steps = 1 /\ rdr.buffer # NULL
  /\ Declared >= 5 /\ rdr.length = Declared + 2
  /\ iter.end_position # NULL /\ ~fail(iter)

\* C10 witness of a rejection: the declared total_length is one above the
\* supplied length, and the iterator is failed.
C10_RejectWitness ==
  /\ steps >= 2 /\ rdr.buffer # NULL
  /\ rdr.length >= 4 /\ Declared = rdr.length + 1
  /\ fail(iter)

\* The iterator has no current element: it is ended or failed.
Cleared(it) == it.end_position = NULL

StepResult(env) == IF steps = 0 THEN begin(rmem, rdr, env) ELSE advance(rmem, iter, env)

\* The places where an operation is left because of a malformation, and those
\* where it is left with an element or at the 0x00 end-of-document byte.
MalformedStops == {"no_length", "total_length", "no_type", "name", "payload"}
RegularStops == {"element", "end_of_document"}

\* C12: every begin() and every ++ that stops because of a malformation (the
\* length prefix is rejected, next_position has reached end_position, the name
\* has no NUL before end_position, the payload check fails) leaves fail()
\* true, and every one that stands on an element or has read the 0x00
\* end-of-document byte leaves fail() false.
C12_FailSeparates ==
  [][(steps' = steps + 1) =>
       \A env \in Envs : \A r \in {StepResult(env)} :
         (iter' = r.it) =>
           /\ (r.stop \in MalformedStops) => fail(iter')
           /\ (r.stop \in RegularStops) => ~fail(iter')
           /\ fail(iter') => (r.stop \in MalformedStops \/ (r.stop = "no_more" /\ fail(iter)))]_vars

\* C12 witness: the first element was produced and the second ++ stopped on
\* a malformation (as in the iterator_fail_second test).
C12_Witness ==
  /\ steps = 2 /\ fail(iter)
  /\ begin(rmem, rdr, Env0).stop = "element"
  /\ advance(rmem, begin(rmem, rdr, Env0).it, Env0).stop \in {"name", "payload", "no_type"}

\* C12 witness of the other terminal state: the iterator read the 0x00 byte
\* after one element and is ended, not failed.
C12_EndedWitness ==
  /\ steps = 2 /\ ~fail(iter) /\ Cleared(iter)
  /\ begin(rmem, rdr, Env0).stop = "element"
  /\ advance(rmem, begin(rmem, rdr, Env0).it, Env0).stop = "end_of_document"

\* C13: a ++ on a failed or ended iterator changes nothing: the iterator keeps
\* all its fields (so fail() keeps its value and the iterator still equals
\* end()), and no address is read.
C13_Absorbing ==
  [][(steps >= 1 /\ steps' = steps + 1 /\ Cleared(iter)) =>
       /\ iter' = iter
       /\ fail(iter') = fail(iter)
       /\ iter_eq(iter', end_iterator)
       /\ reads' = reads]_vars

\* C13 witness: begin() failed and ++ was applied at least twice since.
C13_Witness ==
  /\ steps >= 3 /\ fail(iter)
  /\ begin(rmem, rdr, Env0).stop \in MalformedStops

\* C13 witness for the ended state: the document is empty, begin() ended, and
\* ++ was applied at least twice since.
C13_EndedWitness ==
  /\ steps >= 3 /\ Cleared(iter) /\ ~fail(iter)
  /\ begin(rmem, rdr, Env0).stop = "end_of_document"

\* The iterators compared in a state: the current one, end(), begin(), and
\* the one ++ gives.
Its(env) ==
  {iter, end_iterator, begin(rmem, rdr, env).it, advance(rmem, iter, env).it,
   advance(rmem, begin(rmem, rdr, env).it, env).it}

\* C14: two iterators are equal iff both have a cleared end marker or both
\* stand on an element and hold the same name pointer; equality is reflexive
\* and symmetric, != is its negation, and it++ returns an iterator equal to
\* the iterator before the call while the iterator itself advances as ++it.
C14_Equality ==
  \A env \in Envs :
    /\ \A a \in Its(env), b \in Its(env) :
         /\ iter_eq(a, b) <=> \/ (Cleared(a) /\ Cleared(b))
                              \/ (~Cleared(a) /\ ~Cleared(b) /\ a.e_name = b.e_name)
         /\ iter_eq(a, a)
         /\ iter_eq(a, b) <=> iter_eq(b, a)
         /\ iter_ne(a, b) <=> ~iter_eq(a, b)
    /\ iter_eq(post_increment(rmem, iter, env).old, iter)
    /\ post_increment(rmem, iter, env).it = advance(rmem, iter, env).it

\* C14 witness: the iterator stands on an element and ++ gives another
\* element, so two positioned iterators with different names are compared.
C14_Witness ==
  /\ steps >= 1 /\ ~Cleared(iter)
  /\ ~Cleared(advance(rmem, iter, Env0).it)
  /\ advance(rmem, iter, Env0).it.e_name # iter.e_name

\* C14 witness: a failed iterator is compared with end().
C14_FailedWitness == steps >= 1 /\ fail(iter) /\ iter # end_iterator


\* The tag byte in front of the name of element e in the array, and the n
\* bytes at address a of the array.
RawTag(e) == IF e.data = NULL THEN -1 ELSE rmem[e.e_name - 1 - BASE]
Bytes(a, n) == [i \in 1..n |-> rmem[a - BASE + i - 1]]
Int32At(a) == FromLE32(Bytes(a, 4))

\* The result of a get_ accessor with one output argument: success with the
\* value v when the tag is one of accepted, failure with v0 otherwise.
Expect(tag, accepted, v, v0) ==
  IF tag \in accepted THEN [ok |-> TRUE, value |-> v] ELSE [ok |-> FALSE, value |-> v0]

\* What accessor op has to return on element e: success with the payload iff
\* the tag is in the accepted set, otherwise failure with the output
\* arguments untouched (get_) or the default (as_).
ExpectedGet(op, e, flag) ==
  LET tag == RawTag(e)
      d == e.data
      widened == Bytes(d, 4) \o [i \in 1..4 |-> IF Int32At(d) < 0 THEN 255 ELSE 0]
      integer == CASE tag = type_int32 -> [ok |-> TRUE, value |-> widened]
                   [] tag = type_int64 -> [ok |-> TRUE, value |-> Bytes(d, 8)]
                   [] OTHER -> [ok |-> FALSE, value |-> Bytes0]
      number == CASE tag = type_fp64 ->
                       [ok |-> TRUE, value |-> [rep |-> "ieee", bytes |-> Bytes(d, 8)]]
                  [] tag = type_int32 ->
                       [ok |-> TRUE, value |-> [rep |-> "int32", bytes |-> Bytes(d, 4)]]
                  [] tag = type_int64 ->
                       [ok |-> TRUE, value |-> [rep |-> "int64", bytes |-> Bytes(d, 8)]]
                  [] OTHER -> [ok |-> FALSE, value |-> Number0]
  IN  CASE op = "get_double" -> Expect(tag, {type_fp64}, Bytes(d, 8), Bytes0)
        [] op = "as_double" -> IF tag = type_fp64 THEN Bytes(d, 8) ELSE Bytes0
        [] op = "get_int64" -> Expect(tag, {type_int64}, Bytes(d, 8), Bytes0)
        [] op = "as_int64" -> IF tag = type_int64 THEN Bytes(d, 8) ELSE Bytes0
        [] op = "get_int32" -> Expect(tag, {type_int32}, Int32At(d), Out0.int)
        [] op = "as_int32" -> IF tag = type_int32 THEN Int32At(d) ELSE Out0.int
        [] op = "get_boolean" -> Expect(tag, {type_boolean}, rmem[d - BASE] # 0, flag)
        [] op = "as_boolean" -> IF tag = type_boolean THEN rmem[d - BASE] # 0 ELSE flag
        [] op = "get_integer" -> integer
        [] op = "as_integer" -> integer.value
        [] op = "get_number" -> number
        [] op = "as_number" -> number.value
        [] op = "get_string" ->
             IF tag = type_string THEN [ok |-> TRUE, string |-> d + 4]
             ELSE [ok |-> FALSE, string |-> Out0.ptr]
        [] op = "as_string" -> IF tag = type_string THEN d + 4 ELSE Out0.ptr
        [] op = "get_string_length" ->
             IF tag = type_string
             THEN [ok |-> TRUE, string |-> d + 4, length |-> Int32At(d) - 1]
             ELSE [ok |-> FALSE, string |-> Out0.ptr, length |-> Out0.len]
        [] op = "as_string_length" ->
             IF tag = type_string THEN [result |-> d + 4, length |-> Int32At(d) - 1]
             ELSE [result |-> Out0.ptr, length |-> 3]
        [] op = "get_binary" ->
             IF tag = type_binary
             THEN [ok |-> TRUE, buffer |-> d + 5, length |-> Int32At(d)]
             ELSE [ok |-> FALSE, buffer |-> Out0.ptr, length |-> Out0.len]
        [] op = "get_binary_subtype" ->
             IF tag = type_binary
             THEN [ok |-> TRUE, buffer |-> d + 5, length |-> Int32At(d),
                   subtype |-> rmem[d + 4 - BASE]]
             ELSE [ok |-> FALSE, buffer |-> Out0.ptr, length |-> Out0.len,
                   subtype |-> Out0.sub]
        [] op = "as_binary" ->
             IF tag = type_binary
             THEN [result |-> d + 5, length |-> Int32At(d), subtype |-> rmem[d + 4 - BASE]]
             ELSE [result |-> Out0.ptr, length |-> 3, subtype |-> subtype_generic]

\* C15: called on the element the iterator holds (an invalid element when the
\* iterator is ended or failed), each get_<type> succeeds iff the tag is in
\* its accepted set and then delivers the payload (get_integer an int32
\* sign-extended to 64 bits); otherwise it returns false with every output
\* argument as it was, and each as_<type> returns the caller's default.
C15_TypedAccessors ==
  (ret.op \in Getters) => ret.value = ExpectedGet(ret.op, Current, ret.flag)

\* C15 witness: get_integer was called on an int32 element with a negative
\* value and succeeded.
C15_Witness ==
  /\ ret.op = "get_integer" /\ ret.value.ok
  /\ RawTag(Current) = type_int32 /\ Int32At(iter.data) < 0

\* C15 witnesses: get_int32 was called on an int64 element, and get_number on
\* the invalid element of a failed iterator; both failed.
C15_MismatchWitness ==
  ret.op = "get_int32" /\ ~ret.value.ok /\ RawTag(Current) = type_int64
C15_InvalidWitness ==
  ret.op = "get_number" /\ ~ret.value.ok /\ fail(iter) /\ rmem[4] = 7

\* A double that is zero (either sign) and one that is a NaN, as bytes.
IsZeroDouble(b) == (\A i \in 1..7 : b[i] = 0) /\ b[8] \in {0, 128}
IsNaNDouble(b) ==
  /\ b[8] \in {127, 255} /\ b[7] >= 240
  /\ (b[7] > 240 \/ \E i \in 1..6 : b[i] # 0)

\* The truthiness table.
TruthTable(e) ==
  LET tag == RawTag(e)
  IN  CASE tag = type_fp64 -> ~(IsZeroDouble(Bytes(e.data, 8)) \/ IsNaNDouble(Bytes(e.data, 8)))
        [] tag = type_string -> ~(Int32At(e.data) <= 1)
        [] tag \in {type_document, type_array, type_binary} -> TRUE
        [] tag = type_boolean -> rmem[e.data - BASE] # 0
        [] tag = type_int32 -> Int32At(e.data) # 0
        [] tag = type_int64 -> \E i \in 1..8 : Bytes(e.data, 8)[i] # 0
        [] OTHER -> FALSE

\* C16: truthy() follows the truthiness table (false for a zero or NaN
\* double, a string whose length field is <= 1, a 0x00 boolean, a zero int32
\* or int64, undefined, null, an unrecognized tag and an invalid element;
\* true for every other double, string, boolean, int32 and int64 and for
\* every document, array and binary), and falsy() is its negation.
C16_Truthiness ==
  /\ (ret.op = "truthy") => (ret.value = TruthTable(ret.e))
  /\ (ret.op = "falsy") => (ret.value = ~TruthTable(ret.e))

\* C16 witness: truthy() was called on the empty string, whose length field
\* is 1, and returned false.
C16_Witness ==
  /\ ret.op = "truthy" /\ ~ret.value /\ ret.e = Current /\ ~Cleared(iter)
  /\ RawTag(Current) = type_string /\ Int32At(iter.data) = 1

\* C16 witnesses: truthy() on a NaN, falsy() on a negative zero, truthy() on
\* an int64 whose low half is zero, truthy() on an element tagged 0x07.
C16_NaNWitness ==
  /\ ret.op = "truthy" /\ ret.e = Current /\ RawTag(Current) = type_fp64
  /\ IsNaNDouble(Bytes(iter.data, 8))
C16_ZeroWitness ==
  /\ ret.op = "falsy" /\ ret.e = Current /\ RawTag(Current) = type_fp64
  /\ Bytes(iter.data, 8) = <<0, 0, 0, 0, 0, 0, 0, 128>>
C16_Int64Witness ==
  /\ ret.op = "truthy" /\ ret.value /\ ret.e = Current /\ RawTag(Current) = type_int64
  /\ Bytes(iter.data, 8) = <<0, 0, 0, 0, 1, 0, 0, 0>>
C16_UnknownTagWitness == ret.op = "truthy" /\ ret.e # Current /\ RawTag(ret.e) = 7

\* C17: as_document (as_array) on an element tagged document (array) returns
\* the valid reader that starts at the nested length field and has the value
\* of that field as length; on every other tag, the other container tag
\* included, and on an invalid element it returns the caller's default, which
\* is the invalid reader when the caller gives none.
C17_AsDocument ==
  LET e == Current
      tag == RawTag(e)
      nested == reader(e.data, Int32At(e.data))
      wanted == IF ret.op \in {"as_document", "as_document()"} THEN type_document ELSE type_array
  IN  (ret.op \in {"as_document", "as_array", "as_document()", "as_array()"}) =>
        /\ ret.value = IF tag = wanted THEN nested ELSE ret.dflt
        /\ (tag = wanted) => (reader_valid(ret.value) /\ ret.value.length >= 5)
        /\ (tag # wanted /\ ret.op \in {"as_document()", "as_array()"}) =>
             ~reader_valid(ret.value)

\* C17 witness: as_document was called on a document element holding
\* {"a": true} and returned the reader over the nested nine bytes.
C17_Witness ==
  /\ ret.op = "as_document" /\ ret.dflt = reader(NULL, 0)
  /\ RawTag(Current) = type_document
  /\ ret.value = reader(BASE + 7, 9)

\* C17 witness: as_document with a valid default was called on an array
\* element and returned the default.
C17_MismatchWitness ==
  /\ ret.op = "as_document" /\ ret.dflt = reader(BASE, 5)
  /\ RawTag(Current) = type_array /\ ret.value = ret.dflt

RECURSIVE ProducedFrom(_, _)
\* The elements an iteration hands out from iterator it on, in order.
ProducedFrom(it, env) ==
  IF Cleared(it) THEN << >>
  ELSE <<[e_name |-> it.e_name, data |-> it.data]>> \o ProducedFrom(advance(rmem, it, env).it, env)

Produced(env) == ProducedFrom(begin(rmem, rdr, env).it, env)

\* The name of element e is the byte string s: the bytes of the array.
Named(e, s) ==
  /\ \A i \in 1..Len(s) : rmem[e.e_name - BASE + i - 1] = s[i]
  /\ rmem[e.e_name - BASE + Len(s)] = 0

\* C18: find(name) returns the first element of the iteration whose name is
\* byte-equal to the argument, the earliest when several have it, and the
\* invalid element when none of the elements produced before the iteration
\* ends or fails has that name.
C18_FindFirst ==
  (ret.op = "find") =>
    LET elems == Produced(ret.env)
        hits == {i \in 1..Len(elems) : Named(elems[i], ret.name)}
    IN  IF hits = {} THEN ret.value = invalid_element
        ELSE /\ ret.value = elems[CHOOSE i \in hits : \A j \in hits : i <= j]
             /\ elem_valid(ret.value)

\* C18 witness: two elements are named "a" and find("a") returned the first.
C18_Witness ==
  /\ ret.op = "find" /\ ret.name = <<97>>
  /\ LET elems == Produced(ret.env)
     IN  /\ Len(elems) = 2
         /\ Named(elems[1], <<97>>) /\ Named(elems[2], <<97>>)
         /\ ret.value = elems[1]

\* C18 witness: the iteration produces an element named "a" and then fails,
\* and find("bc") returned the invalid element.
C18_MissWitness ==
  /\ ret.op = "find" /\ ret.name = <<98, 99>> /\ ret.value = invalid_element
  /\ LET elems == Produced(ret.env)
     IN  Len(elems) >= 1 /\ Named(elems[1], <<97>>)

\* C19: with a buffer, query_size returns -1 when length < 4 and otherwise
\* the value of the first four bytes as a little-endian int32, whatever the
\* length of at least 4 and whatever bytes follow the first four.
C19_QuerySize ==
  (ret.op = "query_size" /\ rdr.buffer # NULL) =>
    ret.value = IF ret.length < 4 THEN -1 ELSE Int32At(rdr.buffer)

\* C19 witness: query_size was called with a length of at least 4 that is
\* below the declared total_length, and returned the declared total_length.
C19_Witness ==
  /\ ret.op = "query_size" /\ rdr.buffer # NULL
  /\ ret.length >= 4 /\ Int32At(rdr.buffer) > ret.length
  /\ ret.value = Int32At(rdr.buffer)

\* C19 witness: query_size was called with three bytes.
C19_ShortWitness ==
  ret.op = "query_size" /\ rdr.buffer # NULL /\ ret.length = 3 /\ ret.value = -1

\* The writer an append was made through in this step: the one whose offset
\* moved.
Appender == CHOOSE id \in Writers : born[id] /\ w'[id].offset # w[id].offset

\* The bytes an append through writer id needs in the root buffer: its new
\* offset, the terminator, and one byte for every ancestor.
Needed(id) == w'[id].offset + 1 + get_depth(St, id)

\* C20: every successful append on a dynamic root, made through the root or a
\* subdocument writer below it, that needs more bytes than the root's capacity
\* leaves the capacity at the smallest capacity * 2^k (k >= 1) that is >= the
\* bytes needed, with a buffer of that size; one that needs no more than the
\* capacity leaves the capacity as it is; in both cases every byte written
\* before the append, except the terminator and the length field the append
\* itself rewrites, keeps its value.
C20_GrowthDoubling ==
  [][(nelem' = nelem + 1 /\ w[Root].malloc = 1) =>
       LET id == Appender
           need == Needed(id)
           cap == w[Root].length
           header == header_offset(St, id)..(header_offset(St, id) + 3)
       IN  /\ w'[Root].malloc = 1
           /\ (need <= cap) => (w'[Root].length = cap)
           /\ (need > cap) =>
                /\ w'[Root].length \in {cap * 2, cap * 4, cap * 8}
                /\ w'[Root].length >= need
                /\ w'[Root].length \div 2 < need
           /\ DOMAIN mem'[Buf] = 0..(w'[Root].length - 1)
           /\ \A i \in 0..(w[id].offset - 1) :
                (i \notin header) => (mem'[Buf][i] = mem[Buf][i])]_vars

\* C20 witness: the first append needed more than twice the initial capacity
\* and the capacity is four times the initial one.
C20_Witness ==
  /\ born[Root] /\ w[Root].malloc = 1 /\ nelem = 1
  /\ w[Root].length = 4 * InitialLength
  /\ w[Root].offset + 1 > 2 * InitialLength

\* C20 witnesses: the buffer grew at the second append (bytes were there to
\* preserve), and it grew for an append made through a subdocument writer.
C20_SecondWitness ==
  /\ born[Root] /\ w[Root].malloc = 1 /\ nelem = 2 /\ w[Root].locked = 0
  /\ Len(log[Root]) = 2 /\ Len(log[Root][1].val) = 1
  /\ w[Root].length = 8 * InitialLength
C20_ChildWitness ==
  /\ born[Root] /\ w[Root].malloc = 1 /\ w[Root].locked = 1
  /\ \E c \in Writers \ {Root} : born[c] /\ w[c].locked = 0 /\ Len(log[c]) = 1
  /\ w[Root].length = 2 * InitialLength

\* The root buffer has room for an append of space payload bytes under a name
\* of n characters through writer id, or the allocator provides it.
SpaceSuffices(id, n, space, alloc_ok) ==
  LET root == get_root_of(St, id)
      required == w[id].offset + 1 + (n + 1) + space + 1 + get_depth(St, id)
  IN  \/ required <= w[root].length
      \/ w[root].malloc = 1 /\ alloc_ok /\ Doubled(w[root].length, required) <= MaxAlloc

\* The outcome of add_document(e_name, src) / add_array(e_name, src) on writer
\* id in the current state, whatever the arguments: the call fails when the
\* source is locked, a call that fails returns with the state it was called
\* in, and the call succeeds when source and destination are unlocked, the
\* name is not empty and space suffices.
SourceOutcome(id, src) ==
  \A e_name \in FewNames, type \in {type_document, type_array}, alloc_ok \in BOOLEAN,
     stale \in StaleOutcomes :
    \A g \in {get_bytes(St, src)} :
      \A r \in {add_subdocument_from(St, id, e_name, type, src, alloc_ok, stale)} :
        /\ ~g.ok => ~r.ok
        /\ ~r.ok => r.st = St
        /\ (g.ok /\ w[id].locked = 0 /\ e_name # << >>
              /\ SpaceSuffices(id, Len(e_name), g.length, alloc_ok)) => r.ok

\* What the step of a successful add_document(e_name, src) / add_array(e_name, src)
\* on writer id does: it appends the element (type and name as the call gave
\* them) whose payload is the span get_bytes gave for the source before the
\* call, and the source's fields and span stay as they were.
AddsSource(id, src) ==
  LET g == get_bytes(St, src)
      elem == log'[id][Len(log'[id])]
      n == Len(elem.name)
      dest == w[id].offset + 1 + n + 1
      from == BufferOf(St, src)
      to == BufferOf(St, id)
  IN  /\ g.ok
      /\ mem'[to][w[id].offset] = elem.type
      /\ \A i \in 1..n : mem'[to][w[id].offset + i] = elem.name[i]
      /\ mem'[to][w[id].offset + n + 1] = 0
      /\ \A i \in 0..(g.length - 1) : mem'[to][dest + i] = mem[from][g.bytes + i]
      /\ w'[id].offset = dest + g.length
      /\ mem'[to][dest + g.length] = 0
      /\ w'[src] = w[src]
      /\ \A i \in 0..(g.length - 1) : mem'[from][g.bytes + i] = mem[from][g.bytes + i]

\* C21: add_document(name, src) / add_array(name, src) fails and leaves the
\* destination unchanged whenever src is locked (src has an open child, is
\* finalized or is invalid); once src is unlocked and space suffices it
\* succeeds, the new element's payload is byte for byte the span
\* src.get_bytes() returned at the time of the call, and src itself is not
\* modified.
C21_Injection ==
  /\ [](\A id \in Writers, src \in Writers : (born[id] /\ born[src]) => SourceOutcome(id, src))
  /\ [][(ret'.op = "add_from" /\ ret'.ok) => AddsSource(ret'.id, ret'.subdocument)]_vars

\* C21 for a source other than the destination: the same statement, for every
\* call whose source is a different writer object.
C21_OtherSource ==
  /\ [](\A id \in Writers, src \in Writers : (born[id] /\ born[src]) => SourceOutcome(id, src))
  /\ [][(ret'.op = "add_from" /\ ret'.ok /\ ret'.id # ret'.subdocument) =>
          AddsSource(ret'.id, ret'.subdocument)]_vars

\* C21 witnesses: the document of a writer was added to another writer after
\* the source's open child was finalized (the call of the test); the source
\* was an open subdocument writer; a writer was given itself as the source
\* and the call returned true; the call grew the destination's buffer.
C21_Witness ==
  /\ ret.op = "add_from" /\ ret.ok /\ ret.id = Root /\ ret.subdocument = Src
  /\ Len(log[Src]) = 2 /\ log[Src][2].type = type_array /\ w[Src].locked = 0

C21_ChildWitness ==
  /\ ret.op = "add_from" /\ ret.ok /\ ret.id = Root
  /\ ~is_root(w[ret.subdocument]) /\ w[ret.subdocument].ptr = Src

C21_SelfWitness ==
  ret.op = "add_from" /\ ret.ok /\ ret.id = ret.subdocument

C21_LockedWitness ==
  /\ ret.op = "add_from" /\ ~ret.ok /\ w[ret.id].locked = 0
  /\ OpenChildren(ret.subdocument) # {}

C21_GrownWitness ==
  /\ ret.op = "add_from" /\ ret.ok /\ ret.id = Root /\ ret.subdocument = Src
  /\ w[Root].malloc = 1 /\ w[Root].length > InitialLength /\ Len(log[Root]) = 1

RECURSIVE StartOf(_)
\* Where the document of writer id starts in the root buffer, counted from the
\* elements appended: a root's at 0, a subdocument's behind the type byte and
\* the name of the element that opened it, the last one of its parent.
StartOf(id) ==
  IF is_root(w[id]) THEN 0
  ELSE LET p == w[id].ptr
           k == Len(log[p])
       IN  StartOf(p) + (DocLen(SubSeq(log[p], 1, k - 1)) - 1) + 1 + Len(log[p][k].name) + 1

\* C22: get_bytes on an unlocked writer returns the writer's own span: for a
\* root the start of the buffer and the length offset + 1; for an open
\* subdocument writer the address of its own nested total-length field and
\* the length from that field through its own terminator; the 4-byte length
\* field at the returned pointer equals the returned length (and get_bytes
\* succeeds exactly on an unlocked writer).
C22_OwnSpan ==
  [][(ret'.op = "get_bytes") =>
       LET id == ret'.id
           g == ret'
           h == BufferOf(St, id)
       IN  /\ g.ok <=> (w[id].locked = 0)
           /\ g.ok =>
                /\ is_root(w[id]) => (g.bytes = 0 /\ g.length = w[id].offset + 1)
                /\ g.bytes = StartOf(id)
                /\ g.length = DocLen(log[id])
                /\ g.bytes + g.length - 1 = w[id].offset
                /\ mem[h][g.bytes + g.length - 1] = 0
                /\ FromLE32([i \in 1..4 |-> mem[h][g.bytes + i - 1]]) = g.length
           /\ UNCHANGED wvars]_vars

\* C22 witness: the call of the add_document test: get_bytes on the open
\* subdocument "def" that holds the boolean "123" gives buffer + 9 and 11.
C22_Witness ==
  /\ ret.op = "get_bytes" /\ ret.ok /\ ret.id # Root /\ w[ret.id].ptr = Root
  /\ w[Root].malloc = 0 /\ log[Root][1].name = Name_def
  /\ Len(log[ret.id]) = 1 /\ log[ret.id][1].name = Name_123
  /\ ret.bytes = 9 /\ ret.length = 11

\* C22 witnesses: get_bytes on a root that holds a finalized subdocument, and
\* on a subdocument writer two levels below the root.
C22_RootWitness ==
  /\ ret.op = "get_bytes" /\ ret.ok /\ ret.id = Root
  /\ Len(log[Root]) = 1 /\ log[Root][1].type = type_document /\ log[Root][1].sub.elems # << >>

C22_DeepWitness ==
  /\ ret.op = "get_bytes" /\ ret.ok /\ ~is_root(w[ret.id]) /\ w[ret.id].ptr # Root
  /\ ret.bytes > 9

\* What a release call on writer id that returned r does.  On an unlocked
\* dynamic root: r is the buffer and offset + 1, the buffer's bytes stay, the
\* writer is invalid and locked afterwards, every add_*, get_bytes and a second
\* release on it fail, and its destructor frees nothing.  On every other
\* writer: r is null and no state changes.
Released(id, r) ==
  IF w[id].locked = 0 /\ is_root(w[id]) /\ w[id].malloc = 1
  THEN /\ r.bytes = w[id].ptr /\ r.bytes # NULL
       /\ r.length = w[id].offset + 1
       /\ mem' = mem /\ freed' = freed
       /\ FromLE32([i \in 1..4 |-> mem'[r.bytes][i - 1]]) = r.length
       /\ ~valid(w'[id]) /\ w'[id].locked = 1
       /\ \A c \in Writers \ {id} : w'[c] = w[c]
       /\ EveryAddFails(St', id)
       /\ ~get_bytes(St', id).ok
       /\ \A src \in Writers :
            born[src] => ~add_document_from(St', id, <<97>>, src, TRUE, "in_place").ok
       /\ release(St', id).bytes = NULL
       /\ release(St', id).st = St'
       /\ destroy(St', id) = St'
  ELSE r.bytes = NULL /\ UNCHANGED wvars

\* C23: release() succeeds only on an unlocked dynamic root writer: it returns
\* the buffer with length offset + 1, after which the writer is invalid and
\* permanently locked (every add_*, get_bytes and a second release fail) and
\* the writer's finalization does not free the released buffer; on a
\* fixed-buffer writer, a subdocument writer or a locked writer it returns
\* null and changes no state.
C23_Release ==
  /\ [][(ret'.op = "release") => Released(ret'.id, ret')]_vars
  /\ [][(born[Root] /\ ~valid(w[Root])) => (w'[Root] = w[Root] /\ freed' = freed)]_vars

\* C23 witness: a dynamic root that holds a finalized subdocument was released.
C23_Witness ==
  /\ ret.op = "release" /\ ret.id = Root /\ ret.bytes = Buf /\ ret.length > 5
  /\ Len(log[Root]) = 1 /\ log[Root][1].type = type_document
  /\ ~valid(w[Root]) /\ Buf \notin freed

\* C23 witnesses: release was refused on an unlocked fixed-buffer root, on an
\* unlocked subdocument writer, and on a dynamic root that has an open child.
C23_FixedWitness ==
  /\ ret.op = "release" /\ ret.id = Root /\ ret.bytes = NULL
  /\ w[Root].locked = 0 /\ is_root(w[Root]) /\ w[Root].malloc = 0

C23_ChildWitness ==
  /\ ret.op = "release" /\ ret.id # Root /\ ret.bytes = NULL
  /\ w[ret.id].locked = 0 /\ w[Root].malloc = 1

C23_LockedWitness ==
  /\ ret.op = "release" /\ ret.id = Root /\ ret.bytes = NULL
  /\ w[Root].locked = 1 /\ w[Root].malloc = 1 /\ OpenChildren(Root) # {}

\* Every call made so far had the same outcome on both trees.
SameHistory ==
  /\ log[Root] = log[Src]
  /\ born[ChildOf(Root)] = born[ChildOf(Src)]
  /\ born[ChildOf(Root)] => log[ChildOf(Root)] = log[ChildOf(Src)]

\* C24: for one and the same sequence of writer operations (appends,
\* subdocument opens and closes) that all had the same outcome on both, the
\* dynamic writer and the fixed-buffer writer give byte-identical get_bytes
\* output (same offset into the buffer, same length, same bytes), whether or
\* not the dynamic writer's buffer was reallocated on the way.
C24_ByteIdentical ==
  SameHistory =>
    LET a == Cur(Root)
        b == Cur(Src)
    IN  /\ get_bytes(St, a).ok /\ get_bytes(St, b).ok
        /\ get_bytes(St, a).bytes = get_bytes(St, b).bytes
        /\ get_bytes(St, a).length = get_bytes(St, b).length
        /\ BytesOf(St, a) = BytesOf(St, b)

\* C24 witness: both roots hold the same three elements, the dynamic one
\* after its buffer was reallocated by the second append.
C24_Witness ==
  /\ SameHistory /\ Len(log[Root]) = 3 /\ Cur(Root) = Root
  /\ Len(log[Root][2].val) = 120
  /\ w[Root].malloc = 1 /\ w[Root].length = 2 * InitialLength /\ w[Src].malloc = 0
  /\ BytesOf(St, Root) = BytesOf(St, Src)

\* C24 witnesses: the reallocation happened for an append through the open
\* subdocument writer; the reallocation happened at the first append; and the
\* histories differ because the fixed buffer was full.
C24_ChildWitness ==
  /\ SameHistory /\ Cur(Root) = ChildOf(Root) /\ Len(log[ChildOf(Root)]) = 2
  /\ w[Root].length = 2 * InitialLength
  /\ BytesOf(St, ChildOf(Root)) = BytesOf(St, ChildOf(Src))

C24_ClosedWitness ==
  /\ SameHistory /\ Cur(Root) = Root /\ Len(log[Root]) = 1
  /\ log[Root][1].type = type_array /\ Len(log[Root][1].sub.elems) = 1
  /\ w[Root].length = 2 * InitialLength

C24_FullWitness ==
  /\ ~SameHistory /\ Len(log[Root]) = 3 /\ Len(log[Src]) = 2
  /\ w[Root].length = 4 * InitialLength

\* The four bytes of the 32-bit two's complement value v, lowest first.
LittleEndian(v) ==
  LET u == IF v >= 0 THEN v ELSE (v + INT32_MAX) + 1
  IN  << u % 256, (u \div 256) % 256, (u \div 65536) % 256,
         (u \div 16777216) + (IF v >= 0 THEN 0 ELSE 128) >>

\* The payload bytes of a scalar element e of the log.
PayloadOf(e) ==
  CASE e.type = type_int32 -> LittleEndian(e.val[1])
    [] e.type = type_string -> LittleEndian(Len(e.val) + 1) \o e.val \o <<0>>
    [] e.type = type_binary -> LittleEndian(Len(e.val) - 1) \o e.val
    [] OTHER -> e.val

\* The element e has been laid out by the step at offset o of writer id:
\* type tag, name, NUL, payload, the writer's offset behind the payload and a
\* 0x00 there, and no byte before o changed other than the writer's own
\* 4-byte length field.
LaidOut(id, e) ==
  LET h == BufferOf(St, id)
      o == w[id].offset
      n == Len(e.name)
      payload == PayloadOf(e)
      data == o + 1 + n + 1
      header == header_offset(St, id)..(header_offset(St, id) + 3)
  IN  /\ n > 0
      /\ mem'[h][o] = e.type
      /\ \A i \in 1..n : mem'[h][o + i] = e.name[i]
      /\ mem'[h][o + n + 1] = 0
      /\ \A i \in 1..Len(payload) : mem'[h][data + i - 1] = payload[i]
      /\ w'[id].offset = data + Len(payload)
      /\ mem'[h][w'[id].offset] = 0
      /\ \A i \in 0..(o - 1) : (i \notin header) => (mem'[h][i] = mem[h][i])

\* The scalar types and the payload sizes add_<type> gives them (-1: the size
\* depends on the value).
ScalarSizes ==
  [t \in {type_fp64, type_int64, type_int32, type_boolean, type_undefined, type_null,
          type_string, type_binary} |->
     CASE t \in {type_fp64, type_int64} -> 8
       [] t = type_int32 -> 4
       [] t = type_boolean -> 1
       [] t \in {type_undefined, type_null} -> 0
       [] OTHER -> -1]

\* C25: a successful add_<type>(name, value) on a writer with offset o writes
\* the type tag at o, the name and its NUL after it, then the payload
\* (double/int64: 8 bytes; int32: 4 bytes little-endian; boolean: one byte 0x00
\* or 0x01; undefined/null: nothing; string of n bytes: int32 n + 1, the n
\* bytes, 0x00; binary of n bytes: int32 n, one subtype byte, the n bytes),
\* sets the offset to the end of the payload and writes 0x00 there; no byte
\* in [0, o) other than the writer's own 4-byte length field changes.
C25_ElementLayout ==
  [][(nelem' = nelem + 1) =>
       LET id == Appender
           e == log'[id][Len(log'[id])]
       IN  (e.type \in DOMAIN ScalarSizes) =>
             /\ LaidOut(id, e)
             /\ ScalarSizes[e.type] >= 0 => Len(PayloadOf(e)) = ScalarSizes[e.type]
             /\ e.type = type_boolean => e.val \in {<<0>>, <<1>>}]_vars

\* C25 witness: the root holds add_string("a", "A\0@", 3) behind an earlier
\* element: 02 61 00 04 00 00 00 41 00 40 00 and the terminator.
C25_Witness ==
  /\ born[Root] /\ w[Root].locked = 0 /\ Len(log[Root]) = 2
  /\ log[Root][2] = Scalar(type_string, <<97>>, Data)
  /\ [i \in 1..12 |-> mem[Buf][w[Root].offset - 12 + i]] =
       <<2, 97, 0, 4, 0, 0, 0, 65, 0, 64, 0, 0>>

\* C25 witnesses: a binary element with its subtype byte, a negative int32,
\* an element of no payload, and a double appended through a subdocument
\* writer.
C25_BinaryWitness ==
  /\ born[Root] /\ w[Root].locked = 0 /\ Len(log[Root]) = 1
  /\ log[Root][1].type = type_binary /\ Len(log[Root][1].val) = 4
  /\ [i \in 1..12 |-> mem[Buf][3 + i]] = <<5, 97, 0, 3, 0, 0, 0, 128, 65, 0, 64, 0>>

C25_Int32Witness ==
  /\ born[Root] /\ w[Root].locked = 0 /\ Len(log[Root]) = 1
  /\ log[Root][1].type = type_int32 /\ log[Root][1].name = <<97>>
  /\ [i \in 1..8 |-> mem[Buf][3 + i]] = <<16, 97, 0, 251, 252, 253, 254, 0>>

C25_NullWitness ==
  /\ born[Root] /\ w[Root].locked = 0 /\ Len(log[Root]) = 1
  /\ log[Root][1].type = type_null
  /\ [i \in 1..4 |-> mem[Buf][3 + i]] = <<10, 97, 0, 0>>

C25_ChildWitness ==
  \E c \in Writers \ {Root} :
    /\ born[c] /\ w[c].locked = 0 /\ ~is_root(w[c]) /\ Len(log[c]) = 1
    /\ log[c][1].type = type_fp64
    /\ mem[Buf][w[c].offset] = 0 /\ mem[Buf][w[c].offset - 1] = 63

\* The step is a successful add_document / add_array on writer p.
Opens(p) ==
  /\ nelem' = nelem + 1 /\ born[p] /\ w[p].locked = 0 /\ w'[p].locked = 1
  /\ log'[p] # log[p]

\* What a successful add_document(name) / add_array(name) on p does: tag 0x03
\* or 0x04 at p's offset, the name and its NUL, the placeholder 05 00 00 00 00,
\* p's terminator behind it, p locked, and a valid unlocked subdocument writer
\* of p whose get_bytes is the placeholder.
Opened(p) ==
  LET h == BufferOf(St, p)
      o == w[p].offset
      e == log'[p][Len(log'[p])]
      n == Len(e.name)
      data == o + 1 + n + 1
      c == CHOOSE c \in Writers : born'[c] /\ ~is_root(w'[c]) /\ w'[c].ptr = p /\ w'[c] # w[c]
  IN  /\ e.type \in {type_document, type_array} /\ n > 0
      /\ mem'[h][o] = e.type /\ e.type \in {3, 4}
      /\ \A i \in 1..n : mem'[h][o + i] = e.name[i]
      /\ mem'[h][o + n + 1] = 0
      /\ [i \in 1..5 |-> mem'[h][data + i - 1]] = <<5, 0, 0, 0, 0>>
      /\ w'[p].offset = data + 5 /\ mem'[h][data + 5] = 0
      /\ \E d \in Writers : born'[d] /\ ~is_root(w'[d]) /\ w'[d].ptr = p /\ w'[d] # w[d]
      /\ valid(w'[c]) /\ w'[c].locked = 0
      /\ get_bytes(St', c) = [ok |-> TRUE, bytes |-> data, length |-> 5]
      /\ BytesOf(St', c) = [i \in 0..4 |-> IF i = 0 THEN 5 ELSE 0]
      /\ \A i \in 0..(o - 1) :
           (i \notin header_offset(St, p)..(header_offset(St, p) + 3)) => mem'[h][i] = mem[h][i]

\* An add_document / add_array call on writer id that returns an invalid
\* writer returns with the state it was called in (so id is locked after the
\* call only if it was before), and one that returns a valid writer returns
\* an unlocked one and leaves id locked.
OpenOutcome(id) ==
  \A e_name \in Names, type \in {type_document, type_array}, alloc_ok \in AllocOutcomes :
    \A r \in {add_subdocument(St, id, e_name, type, alloc_ok)} :
      IF valid(r.child)
      THEN w[id].locked = 0 /\ r.st.w[id].locked = 1 /\ r.child.locked = 0 /\ r.child.ptr = id
      ELSE r.st = St /\ r.child = invalid_writer

\* C26: a successful add_document(name) / add_array(name) on writer P writes
\* tag 0x03 / 0x04, the name, the placeholder nested document 05 00 00 00 00
\* and P's terminator after it, sets P locked, and returns a valid unlocked
\* child whose get_bytes is exactly that 5-byte placeholder; when the call
\* fails it returns an invalid writer and P is left as it was: unchanged, and
\* unlocked if it was unlocked before the call.
C26_Opening ==
  /\ [](\A id \in Writers : born[id] => OpenOutcome(id))
  /\ [][\A p \in Writers : Opens(p) => Opened(p)]_vars

\* C26 witness: the state of TEST(writer, empty_document_sub): a fixed root of
\* capacity 13 after add_document("a"): 0d 00 00 00 03 61 00 05 00 00 00 00 00,
\* the root locked, the child unlocked; and a further add_document on the
\* child fails for lack of space.
C26_Witness ==
  /\ born[Root] /\ w[Root].malloc = 0 /\ w[Root].length = 13 /\ w[Root].locked = 1
  /\ [i \in 0..12 |-> mem[Buf][i]] = [i \in 0..12 |-> <<13, 0, 0, 0, 3, 97, 0, 5, 0, 0, 0, 0, 0>>[i + 1]]
  /\ \E c \in Writers \ {Root} :
       /\ born[c] /\ w[c].ptr = Root /\ w[c].locked = 0
       /\ get_bytes(St, c) = [ok |-> TRUE, bytes |-> 7, length |-> 5]
       /\ ~valid(add_subdocument(St, c, <<97>>, type_document, TRUE).child)

\* C26 witnesses: an array opened inside a subdocument behind an element, and
\* an unlocked root that refuses add_document for lack of space and stays
\* unlocked.
C26_DeepWitness ==
  \E c \in Writers \ {Root} :
    /\ born[c] /\ ~is_root(w[c]) /\ w[c].ptr # Root /\ w[c].ptr # NULL /\ w[c].locked = 0
    /\ log[w[c].ptr][Len(log[w[c].ptr])].type = type_array
    /\ Len(log[w[c].ptr]) = 2
    /\ BytesOf(St, c) = [i \in 0..4 |-> IF i = 0 THEN 5 ELSE 0]

C26_RefusedWitness ==
  /\ born[Root] /\ w[Root].malloc = 0 /\ w[Root].locked = 0 /\ Len(log[Root]) = 1
  /\ ~valid(add_subdocument(St, Root, <<97>>, type_document, TRUE).child)
  /\ add_null(St, Root, <<97>>, TRUE).ok

\* The nesting depth of the writer that is open: the number of writers that
\* have an open child.
OpenDepth == Cardinality({a \in Writers : born[a] /\ OpenChildren(a) # {}})

\* C27: on a valid unlocked writer at nesting depth d (0 for the root) with
\* current offset o over a fixed root buffer of capacity C, an append of an
\* element with a non-empty name of n characters and a payload of p bytes
\* succeeds if and only if o + 1 + (n + 1) + p + 1 + d <= C; an append that
\* fills the buffer exactly to its last byte succeeds, and one byte more fails.
C27_ExactCapacity ==
  [][(ret'.op = "add_string" /\ w[Root].malloc = 0) =>
       LET id == ret'.id
           o == w[id].offset
           n == Len(ret'.e_name)
           p == 4 + ret'.length + 1
           d == OpenDepth
           C == w[Root].length
       IN  /\ ret'.ok <=> (o + 1 + (n + 1) + p + 1 + d <= C)
           /\ ret'.ok => (nelem' = nelem + 1 /\ w'[id].offset = o + 1 + (n + 1) + p)
           /\ ~ret'.ok => UNCHANGED wvars]_vars

\* C27 witness: the append filled the fixed buffer of 22 bytes to its last
\* byte: the terminator of the root lies at index 21.
C27_Witness ==
  /\ ret.op = "add_string" /\ ret.ok /\ ret.id = Root /\ w[Root].malloc = 0
  /\ w[Root].length = MaxCap /\ w[Root].offset = MaxCap - 1 /\ hi[Buf] = MaxCap - 1

\* C27 witnesses: an append one byte too long for the fixed buffer was
\* refused; an append through a subdocument writer filled the buffer up to
\* the byte kept for the root's terminator; one through a subdocument writer
\* that would have taken that byte was refused.
C27_RefusedWitness ==
  /\ ret.op = "add_string" /\ ~ret.ok /\ ret.id = Root /\ w[Root].malloc = 0
  /\ w[Root].offset + 1 + (Len(ret.e_name) + 1) + (4 + ret.length + 1) + 1 = w[Root].length + 1

C27_ChildWitness ==
  /\ ret.op = "add_string" /\ ret.ok /\ ret.id # Root /\ w[Root].malloc = 0
  /\ w[ret.id].ptr = Root /\ w[ret.id].offset + 1 + 1 = w[Root].length

C27_ChildRefusedWitness ==
  /\ ret.op = "add_string" /\ ~ret.ok /\ ret.id # Root /\ w[Root].malloc = 0
  /\ w[ret.id].ptr = Root
  /\ w[ret.id].offset + 1 + (Len(ret.e_name) + 1) + (4 + ret.length + 1) + 1 = w[Root].length

\* C28: on a dynamic writer, for every append that passes the check of its
\* value's length, the doubling loop terminates (new_length, doubled modulo
\* 2^32, is never 0 while it is still below required: from 0 no turn of the
\* loop changes it), and the capacity recorded after a growth, kept in 31
\* bits, is at least the required byte count.
C28_GrowthArithmetic ==
  ret.op = "add_element" =>
    /\ (ret.pc = "doubling" => ret.new_length # SizeOf(0))
    /\ (ret.pc = "done" /\ ret.ok => ~Below(SizeOf(ret.length), ret.required))

\* C28, the part that holds: a call that requires at most 2^30 bytes leaves
\* the loop and records a capacity of at least the required byte count.
C28_SmallGrowth ==
  (ret.op = "add_element" /\ ~Below(SizeOf(2^30), ret.required)) =>
    /\ (ret.pc = "doubling" => ret.new_length # SizeOf(0))
    /\ (ret.pc = "done" /\ ret.ok => ~Below(SizeOf(ret.length), ret.required))

\* C28 witnesses: a growth was recorded; 2^31 was stored as capacity 0; the
\* loop holds new_length = 0 below required.
C28_Witness ==
  /\ ret.op = "add_element" /\ ret.pc = "done" /\ ret.ok
  /\ ret.from = InitialLength /\ ret.length = 2^30

C28_TruncatedWitness ==
  /\ ret.op = "add_element" /\ ret.pc = "done" /\ ret.ok
  /\ ret.from = InitialLength /\ ret.new_length = [hi |-> 1, lo |-> 0] /\ ret.length = 0

C28_StuckWitness ==
  /\ ret.op = "add_element" /\ ret.pc = "doubling" /\ ret.new_length = SizeOf(0)
  /\ Below(SizeOf(0), ret.required)

\* The bytes the recorded add_string call r requires of the root buffer, on
\* the writer that is open.
RequiredBy(r) == w[r.id].offset + 1 + (Len(r.e_name) + 1) + (4 + r.length + 1) + 1 + OpenDepth

\* The recorded call r needed a larger buffer and realloc refused it.
Refused(r) ==
  r.op = "add_string" /\ w[Root].malloc = 1 /\ ~r.alloc_ok /\ RequiredBy(r) > w[Root].length

\* C29: when reallocation fails during growth, the append returns failure,
\* the root keeps its buffer pointer and capacity, no buffer byte and no
\* offset changes, and a later append that fits the existing capacity still
\* succeeds, whatever realloc would answer then.
C29_ReallocFailure ==
  /\ [][Refused(ret') =>
          /\ ~ret'.ok
          /\ UNCHANGED wvars
          /\ \A e_name \in {<<97>>, <<98, 99>>}, length \in StringSizes, alloc_ok \in AllocOutcomes :
               (w[ret'.id].offset + 1 + (Len(e_name) + 1) + (4 + length + 1) + 1 + OpenDepth
                  <= w[Root].length)
                 => add_string([mem |-> mem', w |-> w', hi |-> hi', fill |-> fill', freed |-> freed'],
                               ret'.id, e_name, [i \in 1..length |-> 66], SizeOf(length),
                               alloc_ok).ok]_vars
  /\ [][(Refused(ret) /\ ~ret.ok /\ ret'.op = "add_string" /\ ret'.id = ret.id
           /\ RequiredBy(ret') <= w[Root].length)
          => (ret'.ok /\ nelem' = nelem + 1 /\ w'[Root].ptr = w[Root].ptr
                /\ w'[Root].length = w[Root].length)]_vars

\* C29 witness: the 120-byte string needed more than the 128 bytes of the
\* root, realloc refused, the call returned false and the root still has its
\* 128 bytes and its elements, with room for a short string.
C29_Witness ==
  /\ Refused(ret) /\ ~ret.ok /\ ret.length = 120 /\ ret.id = Root
  /\ w[Root].length = InitialLength /\ w[Root].ptr = Buf /\ Len(log[Root]) > 0
  /\ w[Root].offset + 1 + 2 + 8 + 1 <= InitialLength

\* C29 witnesses: the refused call came through a subdocument writer; a
\* refusal after the buffer had grown once.
C29_ChildWitness ==
  /\ Refused(ret) /\ ~ret.ok /\ ret.id # Root /\ w[ret.id].locked = 0

C29_GrownWitness ==
  /\ Refused(ret) /\ ~ret.ok /\ w[Root].length = 2 * InitialLength

\* The iterator operator++ is entered with at the next step: the one begin()
\* sets up behind an accepted header, or the one the caller holds.
Entering ==
  IF steps >= 1 THEN iter
  ELSE IF rdr.buffer # NULL /\ rdr.length >= 4 /\ Declared >= 4 /\ Declared <= rdr.length
  THEN [end_iterator EXCEPT !.end_position = rdr.buffer + Declared,
                            !.next_position = rdr.buffer + 4]
  ELSE end_iterator

\* The element Entering stands before lies in the reader's array and is a
\* string, document, array or binary whose name ends and whose four-byte
\* length field lies before end_position.
AtLengthField ==
  LET it == Entering
      scan == NameScan(rmem, it.next_position + 1, it.end_position, Env0)
  IN  /\ it.end_position # NULL
      /\ it.next_position >= rdr.buffer /\ it.next_position < it.end_position
      /\ Rd(rmem, it.next_position, Env0) \in {type_string, type_document, type_array, type_binary}
      /\ scan.found
      /\ scan.next + 4 <= it.end_position

\* Its length field L is below the minimum of its type, or its payload would
\* end beyond end_position: L bytes behind the field for a string, L - 4 for
\* a document or array, L + 1 for a binary. top bounds the L of a binary.
LengthRefused(top) ==
  LET it == Entering
      type == Rd(rmem, it.next_position, Env0)
      data == NameScan(rmem, it.next_position + 1, it.end_position, Env0).next
      L == FromLE32(Rd4(rmem, data, Env0))
      room == it.end_position - (data + 4)
  IN  /\ (type = type_binary => L <= top)
      /\ CASE type = type_string -> L < 1 \/ L > room
           [] type = type_binary -> L < 0 \/ L > room - 1
           [] OTHER -> L < 5 \/ L - 4 > room

\* C30: a string, document, array or binary element whose length field L is
\* at least the type's minimum and whose payload would end beyond
\* end_position puts the iterator in the failed state when it is advanced
\* over, for every L up to and including INT32_MAX, and so does a length
\* field below the minimum (negative values included).
C30_LengthPastEnd ==
  [][(steps' = steps + 1 /\ AtLengthField /\ LengthRefused(INT32_MAX)) => fail(iter')]_vars

\* C30, the part that holds on every build: the same with the L of a binary
\* up to INT32_MAX - 1.
C30_BelowMax ==
  [][(steps' = steps + 1 /\ AtLengthField /\ LengthRefused(INT32_MAX - 1)) => fail(iter')]_vars

\* C30 witnesses: the iterator stands, not failed, on a binary element whose
\* length field is INT32_MAX in a document of 19 bytes; failed behind a
\* string whose length field is INT32_MAX; failed behind a nested document
\* whose length field is -1.
C30_Witness ==
  /\ steps = 1 /\ ~fail(iter) /\ iter.data = rdr.buffer + 7
  /\ Rd(rmem, rdr.buffer + 4, Env0) = type_binary
  /\ FromLE32(Rd4(rmem, rdr.buffer + 7, Env0)) = INT32_MAX
  /\ iter.next_position < rdr.buffer

C30_StringWitness ==
  /\ steps = 1 /\ fail(iter) /\ Declared >= 4 /\ Declared <= rdr.length /\ rdr.buffer # NULL
  /\ Rd(rmem, rdr.buffer + 4, Env0) = type_string
  /\ FromLE32(Rd4(rmem, rdr.buffer + 7, Env0)) = INT32_MAX

C30_NegativeWitness ==
  /\ steps = 1 /\ fail(iter) /\ Declared >= 4 /\ Declared <= rdr.length /\ rdr.buffer # NULL
  /\ Rd(rmem, rdr.buffer + 4, Env0) = type_document
  /\ FromLE32(Rd4(rmem, rdr.buffer + 7, Env0)) = -1

\* C31: a fixed writer constructed with a null buffer pointer and a capacity
\* in [5, INT32_MAX] is an inert invalid writer: no store through the null
\* pointer happens (so the program does not fault on one), valid() is false,
\* and every later operation on it fails and changes nothing.
C31_NullBuffer ==
  /\ ret # Fault
  /\ hi[NULL] = -1
  /\ (born[Root] /\ w[Root].ptr = NULL) => Inert(St, Root)

\* C31, the part that holds: a null buffer with a capacity out of range gives
\* the inert invalid writer, without a store.
C31_NullOutOfRange ==
  \A size \in {SizeOf(4), TooBig} :
    \A s \in {new_fixed(CallerArray, Root, NULL, size)} :
      Inert(s, Root) /\ s.hi = CallerArray.hi /\ s.mem = CallerArray.mem

\* C31 witnesses: a writer constructed on a null pointer with capacity 22
\* that is valid and unlocked, with 05 00 00 00 00 stored at address 0; the
\* constructor faulted; an append through that writer stored at address 0.
C31_Witness ==
  /\ born[Root] /\ w[Root].ptr = NULL /\ w[Root].length = MaxCap
  /\ valid(w[Root]) /\ w[Root].locked = 0
  /\ hi[NULL] = 4 /\ mem[NULL][0] = 5 /\ mem[NULL][4] = 0

C31_FaultWitness == ret = Fault /\ ~born[Root] /\ hi[NULL] = -1

C31_AppendWitness ==
  /\ born[Root] /\ w[Root].ptr = NULL /\ Len(log[Root]) > 0 /\ hi[NULL] > 4
  /\ mem[NULL][4] # 0

\* The step finalizes g right after the destructor of its parent c, a
\* subdocument writer, has run with g still open.
FinalizesAfterParent(g) ==
  /\ ret.op = "~writer" /\ Finalizes(g) /\ w[g].ptr = ret.id /\ ~is_root(w[ret.id])

\* C32: the finalization of a subdocument writer C (child of P) that still
\* has an open child G is a no-op (no byte written, P stays locked, C's
\* offset and lock unchanged); when G is finalized afterwards the length
\* patch is propagated upward: C's and P's length fields cover the bytes
\* written through G and P becomes unlocked.
C32_OutOfOrder ==
  /\ [][ret'.op = "~writer" => UNCHANGED wvars]_vars
  /\ [][\A g \in Writers :
          FinalizesAfterParent(g) =>
            LET c == w[g].ptr
                P == w[c].ptr
            IN  /\ w'[c].offset = w[g].offset + 1 /\ SpanInOrder(St', c)
                /\ w'[P].locked = 0
                /\ w'[P].offset = w[g].offset + 2 /\ SpanInOrder(St', P)]_vars

\* C32, the part that holds: the early finalization of C is a no-op, and the
\* finalization of G afterwards patches and unlocks C, its immediate parent,
\* and leaves P and P's length field as they were.
C32_ParentOnly ==
  /\ [][ret'.op = "~writer" => UNCHANGED wvars]_vars
  /\ [][\A g \in Writers :
          FinalizesAfterParent(g) =>
            LET c == w[g].ptr
                P == w[c].ptr
                first == header_offset(St, P)
            IN  /\ BackPatched(g)
                /\ w'[P] = w[P] /\ w[P].locked = 1
                /\ \A i \in first..(first + 3) : mem'[Buf][i] = mem[Buf][i]]_vars

\* C32 witnesses: the destructor of a subdocument writer with an open child
\* has just run, with an element already appended through that child; the
\* same for a root.
C32_Witness ==
  /\ ret.op = "~writer" /\ ~is_root(w[ret.id]) /\ w[ret.id].locked = 1
  /\ w[w[ret.id].ptr].locked = 1
  /\ \E g \in Writers : born[g] /\ w[g].ptr = ret.id /\ ~is_root(w[g]) /\ w[g].locked = 0
                          /\ Len(log[g]) > 0

C32_RootWitness ==
  /\ ret.op = "~writer" /\ is_root(w[ret.id]) /\ w[ret.id].locked = 1

\* C33: after construction, after every successful append through a writer W
\* (root or subdocument) and after every finalization of a child of W, W's
\* own length field equals W.offset + 1 - header_offset(W) and the byte at
\* W.offset is 0x00 (also right after W has opened a child), so whenever W is
\* unlocked the span W.get_bytes() returns iterates to the ended state
\* without failing.
C33_OwnSpanConsistent ==
  /\ [](\A id \in Writers :
          (born[id] /\ w[id].locked = 0) =>
            /\ SpanInOrder(St, id)
            /\ get_bytes(St, id).ok
            /\ ~ReadBack(St, id).failed)
  /\ [][\A id \in Writers :
          (born[id] /\ w[id].locked = 0 /\ w'[id].locked = 1 /\ valid(w'[id]))
            => SpanInOrder(St', id)]_vars

\* C33 witnesses: the root is unlocked and its only element is a copy of its
\* own document made by add_document(name, root): the copy says 13 bytes
\* and is 5 bytes long; a root that holds a finalized subdocument with an
\* element of its own, in order.
C33_Witness ==
  /\ born[Root] /\ w[Root].locked = 0 /\ w[Root].malloc = 0 /\ w[Root].offset = 12
  /\ Len(log[Root]) = 1 /\ log[Root][1].type = type_document
  /\ mem[Buf][0] = 13 /\ mem[Buf][7] = 13 /\ mem[Buf][11] = type_document /\ mem[Buf][12] = 0
  /\ ReadBack(St, Root).failed

C33_ClosedWitness ==
  /\ born[Root] /\ w[Root].locked = 0 /\ Len(log[Root]) = 1
  /\ log[Root][1].type = type_array /\ log[Root][1].sub # NoView
  /\ Len(log[Root][1].sub.elems) > 0
  /\ SpanInOrder(St, Root) /\ ~ReadBack(St, Root).failed

\* A live writer: constructed, and neither invalid from the start nor
\* finalized nor released.
Live(id) == born[id] /\ valid(w[id])

RECURSIVE Ancestors(_)
\* The writers above a live subdocument writer, up to the root.
Ancestors(id) == IF is_root(w[id]) THEN {} ELSE {w[id].ptr} \cup Ancestors(w[id].ptr)

\* C34: with finalization innermost-first, in every reachable state exactly
\* one live writer on a root buffer is unlocked, the innermost open one, and
\* every proper ancestor of it is locked; a writer's locked flag is set iff
\* it has an open child or is not live (finalized, released, or constructed
\* invalid), and the flag changes only in the steps that say so; while a
\* child is open its parent's offset does not change and is the child's
\* header offset + 5.
C34_LockChain ==
  /\ [](Live(Root) =>
          /\ Cardinality({id \in Writers : Live(id) /\ w[id].locked = 0}) = 1
          /\ \A id \in Writers :
               (Live(id) /\ w[id].locked = 0) =>
                 /\ OpenChildren(id) = {}
                 /\ \A a \in Ancestors(id) : Live(a) /\ w[a].locked = 1
                 /\ \A o \in Writers : Live(o) => (o = id \/ o \in Ancestors(id)))
  /\ [](\A id \in Writers :
          born[id] => ((w[id].locked = 1) <=> (OpenChildren(id) # {} \/ ~Live(id))))
  /\ [](\A p \in Writers, c \in Writers :
          (Live(p) /\ c \in OpenChildren(p)) => w[p].offset = StartOf(c) + 5)
  /\ [][\A p \in Writers :
          (Live(p) /\ OpenChildren(p) # {} /\ Cardinality(OpenChildren(p)) = 1
             /\ \E c \in OpenChildren(p) : born'[c] /\ ~is_root(w'[c]) /\ w'[c].ptr = p)
            => (w'[p].offset = w[p].offset /\ w'[p].locked = 1)]_vars

\* C34 witness: three live writers in a chain, root and child locked, the
\* grandchild unlocked with an element appended through it.
C34_Witness ==
  \E c \in Writers, g \in Writers :
    /\ Live(Root) /\ Live(c) /\ Live(g) /\ w[c].ptr = Root /\ w[g].ptr = c /\ ~is_root(w[c])
    /\ ~is_root(w[g])
    /\ w[Root].locked = 1 /\ w[c].locked = 1 /\ w[g].locked = 0 /\ Len(log[g]) > 0
    /\ w[c].offset = StartOf(g) + 5

\* C34 witnesses: a child was finalized and its parent, the root, is the one
\* unlocked writer again; a released root is locked with no child.
C34_ResumedWitness ==
  \E c \in Writers :
    /\ Live(Root) /\ w[Root].locked = 0 /\ Finalized(c) /\ c # Root
    /\ Len(log[Root]) > 0 /\ log[Root][1].sub # NoView

C34_ReleasedWitness ==
  /\ born[Root] /\ ~Live(Root) /\ w[Root].locked = 1 /\ freed = {} /\ mem[Buf] # << >>
  /\ Len(log[Root]) > 0 /\ hi[Buf] > 4 /\ DOMAIN mem[Buf] = 0..(InitialLength - 1)

\* The ten type tags of enum class type.
SupportedTags ==
  { type_fp64, type_string, type_document, type_array, type_binary, type_undefined,
    type_boolean, type_null, type_int32, type_int64 }

\* The iterator holds an element.
Positioned == iter.end_position # NULL

\* The end marker is set iff the element held is valid (name and data
\* pointers set); an ended or failed iterator dereferences to an invalid
\* element: valid() false, type() 0, so every is_* false.
MarkerAndElement ==
  /\ (iter.end_position # NULL) <=> (iter.e_name # NULL /\ iter.data # NULL)
  /\ (iter.end_position = NULL) =>
       /\ iter.e_name = NULL
       /\ ~elem_valid(Current)
       /\ \A env \in Envs : elem_type(rmem, Current, env) = 0
                              /\ elem_type(rmem, Current, env) \notin SupportedTags

\* C35: in every reachable iterator state the end marker is non-null iff the
\* current element is valid; in the ended and failed states dereferencing
\* yields an invalid element; in the positioned state
\* buffer + 4 < name < data <= next_position <= end_position = buffer + total_length.
C35_IteratorStates ==
  /\ MarkerAndElement
  /\ Positioned =>
       /\ rdr.buffer + 4 < iter.e_name
       /\ iter.e_name < iter.data
       /\ iter.data <= iter.next_position
       /\ iter.next_position <= iter.end_position
       /\ iter.end_position = rdr.buffer + Declared

\* C35, the part that holds on every build: the marker and the element agree
\* in every state, and the order of the pointers holds as long as no advance
\* has moved next_position to before the buffer.
C35_UnlessMovedBack ==
  /\ MarkerAndElement
  /\ Positioned => iter.end_position = rdr.buffer + Declared
  /\ (Positioned /\ reads.lo >= rdr.buffer /\ iter.next_position >= rdr.buffer) =>
       /\ rdr.buffer + 4 < iter.e_name
       /\ iter.e_name < iter.data
       /\ iter.data <= iter.next_position
       /\ iter.next_position <= iter.end_position

\* C35 witnesses: the iterator holds the binary element with length field
\* INT32_MAX and its next_position lies before the buffer; the iterator holds
\* the second element of a document, in order; a failed iterator.
C35_Witness ==
  /\ steps = 1 /\ Positioned /\ iter.e_name = rdr.buffer + 5 /\ iter.data = rdr.buffer + 7
  /\ elem_type(rmem, Current, Env0) = type_binary
  /\ iter.next_position < iter.data

C35_SecondWitness ==
  /\ steps = 2 /\ Positioned /\ reads.lo >= rdr.buffer
  /\ rdr.buffer + 5 < iter.e_name /\ iter.e_name < iter.data
  /\ iter.data <= iter.next_position /\ iter.next_position < iter.end_position

C35_FailedWitness ==
  /\ steps >= 2 /\ fail(iter) /\ ~elem_valid(Current) /\ iter.next_position > rdr.buffer + 4

\* C36: every advance that leaves the iterator positioned increases
\* next_position by at least 2 bytes and moves it neither beyond end_position
\* nor backwards, so an iterator over a document of declared length n that is
\* still positioned after k advances (begin() making the first) has
\* 4 + 2k <= n: it is ended or failed after at most n advances.
C36_Progress ==
  /\ [][(steps' = steps + 1 /\ iter'.end_position # NULL) =>
          /\ iter'.next_position >= Entering.next_position + 2
          /\ iter'.next_position <= iter'.end_position]_vars
  /\ [](Positioned => (4 + 2 * steps <= Declared /\ steps <= Declared))

\* C36, the part that holds on every build: the same for the advances that
\* start and end at or behind the start of the buffer.
C36_ProgressInBuffer ==
  /\ [][(steps' = steps + 1 /\ iter'.end_position # NULL
           /\ Entering.next_position >= rdr.buffer /\ iter'.next_position >= rdr.buffer) =>
          /\ iter'.next_position >= Entering.next_position + 2
          /\ iter'.next_position <= iter'.end_position]_vars
  /\ []((Positioned /\ reads.lo >= rdr.buffer /\ iter.next_position >= rdr.buffer)
          => (4 + 2 * steps <= Declared /\ steps <= Declared))

\* C36 witnesses: an advance left the iterator positioned with next_position
\* before the place it started from; two advances each moved next_position
\* forward inside the buffer.
C36_Witness ==
  /\ steps = 1 /\ Positioned /\ iter.next_position < rdr.buffer + 4

C36_ForwardWitness ==
  /\ steps = 2 /\ Positioned /\ reads.lo >= rdr.buffer
  /\ iter.next_position >= rdr.buffer + 4 + 2 * 2 /\ iter.next_position <= iter.end_position

\* The iteration has reached the ended state by reading a type byte 0x00:
\* an iterator was made from a reader with a buffer, and it is neither
\* positioned nor failed.
Ended ==
  /\ steps >= 1 /\ rdr.buffer # NULL
  /\ iter.end_position = NULL /\ iter.next_position = NULL

\* C37: when iteration over a reader reaches the ended state, the 0x00 byte
\* that ended it (the last byte read, at the highest address read) is the
\* last byte of the declared document, at index total_length - 1.
C37_EndAtDeclaredEnd ==
  Ended => /\ reads.hi = rdr.buffer + Declared - 1
           /\ Rd(rmem, reads.hi, Env0) = 0

\* C37, the part that holds: when every read lay inside the buffer, the byte
\* that ended the iteration is a 0x00 at an index from 4 to total_length - 1.
C37_EndInsideDocument ==
  (Ended /\ reads.lo >= rdr.buffer) =>
    /\ reads.hi >= rdr.buffer + 4 /\ reads.hi <= rdr.buffer + Declared - 1
    /\ Rd(rmem, reads.hi, Env0) = 0

\* C37 witnesses: the iteration has ended on a 0x00 inside the buffer that is
\* not the last byte of the declared document; it ended on the last byte of
\* a document of two elements.
C37_Witness ==
  /\ Ended /\ steps = 2 /\ reads.lo >= rdr.buffer
  /\ reads.hi < rdr.buffer + Declared - 1 /\ Rd(rmem, reads.hi, Env0) = 0

C37_CleanWitness ==
  /\ Ended /\ steps = 3 /\ reads.lo >= rdr.buffer
  /\ reads.hi = rdr.buffer + Declared - 1 /\ Rd(rmem, reads.hi, Env0) = 0


\* The n bytes from address a on are bytes of the declared document.
InDocument(a, n) ==
  /\ a >= rdr.buffer
  /\ n >= 0
  /\ a <= rdr.buffer + Declared
  /\ n <= rdr.buffer + Declared - a

\* What the accessors of the element the iterator holds give access to lies
\* in the declared document.
ViewsInside ==
  LET e == Current
      type == elem_type(rmem, e, Env0)
      s == get_string(rmem, e, Env0)
      b == get_binary(rmem, e, Env0)
      r == as_subdocument(rmem, e, reader(NULL, 0), type, Env0)
  IN  /\ type \in {type_fp64, type_int64} => InDocument(e.data, 8)
      /\ type = type_int32 => InDocument(e.data, 4)
      /\ type = type_boolean => InDocument(e.data, 1)
      /\ type = type_string =>
           /\ s.length >= 0
           /\ InDocument(s.string, s.length)
           /\ InDocument(e.data, 4 + s.length + 1)
      /\ type = type_binary =>
           /\ b.length >= 0
           /\ InDocument(b.buffer, b.length)
           /\ InDocument(e.data, 5 + b.length)
      /\ type \in {type_document, type_array} =>
           /\ r.buffer = e.data
           /\ r.length >= 5
           /\ InDocument(r.buffer, r.length)
           /\ Rd(rmem, r.buffer + r.length - 1, Env0) = 0

\* C38: for every element obtained by dereferencing a positioned iterator,
\* all bytes reachable through its accessors lie inside
\* [buf, buf + total_length): the fixed-size payloads, the (pointer, length)
\* pairs of get_string and get_binary including the subtype byte, and the
\* reader of as_document/as_array, whose length is >= 5 and whose last byte
\* is 0x00.
C38_ViewsContained == Positioned => ViewsInside

\* C38, the part that holds on every build: the same for an iterator whose
\* next_position has not been moved to before the buffer.
C38_ContainedUnlessMovedBack ==
  (Positioned /\ reads.lo >= rdr.buffer /\ iter.next_position >= rdr.buffer) => ViewsInside

\* C38 witnesses: the iterator holds a binary element whose get_binary length
\* is INT32_MAX; it holds a string element, and a document element, with
\* the view inside the document.
C38_Witness ==
  /\ steps = 1 /\ Positioned /\ iter.data = rdr.buffer + 7
  /\ get_binary(rmem, Current, Env0).ok
  /\ get_binary(rmem, Current, Env0).length = INT32_MAX

C38_StringWitness ==
  /\ steps = 1 /\ Positioned /\ get_string(rmem, Current, Env0).ok
  /\ get_string(rmem, Current, Env0).length = 3 /\ ViewsInside

C38_DocumentWitness ==
  /\ steps = 1 /\ Positioned /\ elem_type(rmem, Current, Env0) = type_document
  /\ as_document_or_invalid(rmem, Current, Env0) = reader(rdr.buffer + 7, 9) /\ ViewsInside


\* The byte operator++ reads as the type at the next step is a byte of the
\* reader's array before end_position, non-zero and none of the ten tags.
AtUnsupportedTag ==
  /\ Entering.end_position # NULL
  /\ Entering.next_position >= rdr.buffer
  /\ Entering.next_position < Entering.end_position
  /\ Rd(rmem, Entering.next_position, Env0) \notin (SupportedTags \cup {0})

\* No lookup returns an element whose name starts behind address t.
NothingFoundBehind(t) ==
  \A name \in Lookups, env \in Envs :
    \E e \in {find(rmem, rdr, name, env)} : e = invalid_element \/ e.e_name < t

\* C39: advancing onto an element whose tag byte is non-zero but not one of
\* the ten supported tags puts the iterator in the failed state, without
\* element, and it stays there; no positioned iterator holds an element with
\* an unsupported tag; find returns no element from the unsupported tag on.
C39_UnsupportedTagFails ==
  /\ [][(steps' = steps + 1 /\ AtUnsupportedTag) =>
          /\ fail(iter') /\ iter'.e_name = NULL /\ iter'.data = NULL
          /\ iter'.next_position > Entering.next_position
          /\ NothingFoundBehind(Entering.next_position)]_vars
  /\ [][(steps >= 1 /\ fail(iter)) => iter' = iter]_vars
  /\ [](Positioned => \A env \in Envs : elem_type(rmem, Current, env) \in SupportedTags)

\* C39 witnesses: the first tag of {"a": int32, "bc": double} is 0x07, begin()
\* failed behind the name and find("bc") finds nothing; the second advance
\* failed on a second element tagged 0xff.
C39_Witness ==
  /\ steps = 1 /\ fail(iter) /\ rdr.buffer # NULL /\ rmem[4] = 7
  /\ iter.next_position = rdr.buffer + 7
  /\ Named([e_name |-> rdr.buffer + 12, data |-> rdr.buffer + 15], <<98, 99>>)
  /\ rmem[11] = type_fp64
  /\ find(rmem, rdr, <<98, 99>>, Env0) = invalid_element

C39_SecondWitness ==
  /\ steps = 2 /\ fail(iter) /\ rdr.buffer # NULL
  /\ rmem[4] \in SupportedTags /\ iter.next_position > rdr.buffer + 7
  /\ \E t \in (rdr.buffer + 7)..(rdr.buffer + Declared - 1) :
       /\ rmem[t - BASE] = 255
       /\ NameScan(rmem, t + 1, rdr.buffer + Declared, Env0).next = iter.next_position
       /\ find(rmem, rdr, <<97>>, Env0) = [e_name |-> rdr.buffer + 5, data |-> rdr.buffer + 7]


\* C40: after move-constructing a writer from another, exactly one of the
\* two remains responsible for finalization: no destructor hands a buffer to
\* ::free that has been freed already, and none unlocks and patches a parent
\* that is not locked by an open subdocument.
C40_SingleFinalization ==
  [][(ret'.op = "~writer") =>
       /\ ret'.freed # NULL => ret'.freed \notin freed
       /\ ret'.patched # NULL => w[ret'.patched].locked = 1]_vars

\* C40 witnesses: a dynamic root was move-constructed from and the destructor
\* of the second of the two objects has handed the buffer to ::free again; a
\* subdocument writer, the only element of its parent, was move-constructed
\* from, both objects were destroyed and the second destructor has patched
\* the parent again; the destructor of
\* the only writer of its buffer has freed it.
C40_Witness ==
  /\ ret.op = "~writer" /\ ret.freed = Buf /\ freed = {Buf}
  /\ \E a \in Writers \ {ret.id} : born[a] /\ Finalized(a) /\ Finalized(ret.id)
  /\ \A c \in Writers : born[c] => (c = ret.id \/ Finalized(c))
  /\ Cardinality({c \in Writers : born[c]}) = 2

C40_PatchedWitness ==
  /\ ret.op = "~writer" /\ ret.patched = Root /\ ret.id # Root
  /\ born[Root] /\ w[Root].locked = 0
  /\ nelem = 1 /\ Len(log[Root]) = 1
  /\ Cardinality({c \in Writers \ {Root} : born[c] /\ Finalized(c) /\ w[c].offset > 4}) = 2

C40_SingleWitness ==
  /\ ret.op = "~writer" /\ ret.id = Root /\ ret.freed = Buf /\ freed = {Buf}
  /\ Cardinality({c \in Writers : born[c]}) = 1

====
